---------------------------- MODULE Spec2Model ----------------------------
(***************************************************************************)
(* Verification model of p115client: the Sync Engine (p115updatedb and the *)
(* standalone examples/updatedb.py), the 302 redirect gateways and the     *)
(* query layer of the local mirror.                                        *)
(*                                                                         *)
(* Each component has its own specification (SpecDiff, SpecSync, ...);     *)
(* a component's actions leave every other component's variables alone.    *)
(***************************************************************************)
EXTENDS Integers, Sequences, FiniteSets, TLC

VARIABLES
    evo,      \* which evolution of the Sync Engine runs: "pkg" or "example"
    data,     \* the data table of the mirror: id -> row
    remote,   \* the remote drive: id -> entry
    listing,  \* the order in which the remote returned the current listing
    pc,       \* position of the running updatedb_one call
    cur,      \* id of the directory being updated
    result,   \* (upsert, delete) result of the running diff_dir call
    before,   \* the data table as it was when diff_dir was called
    dq,       \* work queue of updatedb
    seen,     \* directories updatedb has marked processed
    busy,     \* directories whose last attempt raised Busy and awaits a retry
    nbusy,    \* number of Busy outcomes so far in this run
    recursive, \* the recursive argument of the running updatedb call
    gw,       \* the gateway variant that serves the request
    token,    \* the signing token the gateway was started with ("" = none)
    now,      \* time() when the request is served
    req,      \* the request: pickcode, id, sha1, path, sign, t
    resp,     \* the response: status and the file redirected to
    gpc,      \* "req" before the handler has run, "done" after
    ID_TO_PICKCODE, \* the gateway's cache from file id to pickcode
    rv,       \* the gateway whose rate limiting is exercised
    clock,    \* the time, in ticks of half a second
    hpc,      \* where each of the two request handlers stands
    hrange,   \* the Range header of each request ("" = none)
    started,  \* the time at which each handler began
    hcall,    \* the download-URL call each handler is waiting on
    hresp,    \* each handler's response: status and URL
    URL_COOLDOWN, \* per cooldown key, the time its entry expires
    URL_CACHE,    \* the cached URL and the time it expires
    calls,    \* the download-URL calls made to the remote drive
    qres,     \* what each dangling-id query returned
    qdone,    \* the dangling-id queries that have run
    mv,       \* a remote drive whose directories move, and its mirror
    ld,       \* the background loaders of a gateway and their job queue
    blob,     \* the blob table of the Served-DB Gateway and its fetches
    rsa,      \* a payload passing through encrypt and decrypt
    fuse,     \* an open FUSE file handle and the reads made on it
    sp,       \* an updatedb run with a positive auto-splitting threshold
    web,      \* a request to the 115 DAV gateway for the bytes of a file
    mon,      \* the Life-Event Monitor: its poll loop, queue and sink
    share,    \* a share download of the tiny gateway and its retries
    trav,     \* a mirror and what the listing functions of the query layer yield
    reg,      \* the data and dir tables under a sequence of sync operations
    xp,       \* an export of a directory tree and the generator that parses it
    prs,      \* the lines of an export file and the records parsed from them
    rq,       \* a cookie jar and the request callable make_request built on it
    adm,      \* an administrative request and its answer
    pull,     \* one paginated pull of a directory by iterdir
    feed,     \* the activity feed and the poll loop of the Life-Event Monitor
    dirc      \* the directory cache of the FUSE filesystem

syncVars == <<evo, data, remote, listing, pc, cur, result, before, dq, seen, busy, nbusy, recursive>>

gwVars == <<gw, token, now, req, resp, gpc, ID_TO_PICKCODE>>

rateVars == <<rv, clock, hpc, hrange, started, hcall, hresp, URL_COOLDOWN, URL_CACHE, calls>>

queryVars == <<qres, qdone>>

coreVars == <<syncVars, gwVars, rateVars, queryVars>>

lastVars == <<pull, feed, dirc>>

LastIdle == pull = <<>> /\ feed = <<>> /\ dirc = <<>>

laterVars == <<web, mon, share, trav, reg, xp, prs, rq, adm, lastVars>>

LaterIdle ==
    /\ web = <<>> /\ mon = <<>> /\ share = <<>> /\ trav = <<>> /\ reg = <<>> /\ xp = <<>> /\ prs = <<>> /\ rq = <<>> /\ adm = <<>>
    /\ LastIdle

vars == <<coreVars, mv, ld, blob, rsa, fuse, sp, laterVars>>

(***************************************************************************)
(* Bounds                                                                  *)
(***************************************************************************)
MaxMtime == 2
MaxBusy == 2

Mtimes == 1..MaxMtime

(***************************************************************************)
(* The directory tree used by the Sync Engine model.  "root" is id 0 of    *)
(* the drive; it has no row of its own.                                    *)
(***************************************************************************)
Ids == {"top", "sub", "f1", "f2", "g1"}
DirIds == {"top", "sub"}
ParentOf == [i \in Ids |-> CASE i = "top" -> "root"
                             [] i = "g1" -> "sub"
                             [] OTHER -> "top"]
TopChildren == {i \in Ids : ParentOf[i] = "top"}

NoRow == [present |-> FALSE, parent_id |-> "root", mtime |-> 0, is_dir |-> FALSE, is_alive |-> FALSE]
Row(p, m, d, a) == [present |-> TRUE, parent_id |-> p, mtime |-> m, is_dir |-> d, is_alive |-> a]

NoEntry == [exists |-> FALSE, mtime |-> 0]
Entry(m) == [exists |-> TRUE, mtime |-> m]

\* normalize_attr: the row a remote entry is written as (always is_alive = 1)
normalize_attr(rem, i) == Row(ParentOf[i], rem[i].mtime, i \in DirIds, TRUE)

\* ids physically present in the data table
RowIds(con) == {i \in Ids : con[i].present}

\* live rows directly under a directory, as (id, mtime) pairs
LiveRows(con, id) ==
    {<<i, con[i].mtime>> : i \in {j \in Ids : con[j].present /\ con[j].is_alive /\ con[j].parent_id = id}}

\* the remote listing of a directory, as (id, mtime) pairs
RemoteRows(rem, id) ==
    {<<i, rem[i].mtime>> : i \in {j \in Ids : rem[j].exists /\ ParentOf[j] = id}}

(***************************************************************************)
(* sqlite helpers                                                          *)
(***************************************************************************)
\* upsert_items(con, items): INSERT ... ON CONFLICT(id) DO UPDATE with the
\* normalized attributes of the listed ids
upsert_items(con, rem, ids) ==
    [i \in Ids |-> IF i \in ids THEN normalize_attr(rem, i) ELSE con[i]]

\* upsert_items(con, ancestors, extras={"is_alive": 1, "is_dir": 1}): only
\* id, parent_id, name and the extras are written; a new row gets mtime 0
upsert_ancestors(con, ids) ==
    [i \in Ids |-> IF i \in ids
                   THEN Row(ParentOf[i], IF con[i].present THEN con[i].mtime ELSE 0, TRUE, TRUE)
                   ELSE con[i]]

\* a removal that leaves the rows as they are
kill_nothing(con, ids) == con

\* a removal that drops the rows instead of marking them
kill_by_delete(con, ids) ==
    [i \in Ids |-> IF i \in ids THEN NoRow ELSE con[i]]

\* kill_items: UPDATE data SET is_alive=0 WHERE id IN (...)
kill_items(con, ids) ==
    [i \in Ids |-> IF i \in ids /\ con[i].present THEN [con[i] EXCEPT !.is_alive = FALSE] ELSE con[i]]

\* delete_items: DELETE FROM data WHERE id IN (...)
delete_items(con, ids) ==
    [i \in Ids |-> IF i \in ids THEN NoRow ELSE con[i]]

(***************************************************************************)
(* iterdir: the remote returns the children of a directory ordered by      *)
(* mtime, newest first; entries of equal mtime come in any order.          *)
(***************************************************************************)
RemoteChildren(rem, id) == {i \in Ids : rem[i].exists /\ ParentOf[i] = id}

iterdir(rem, id) ==
    LET kids == RemoteChildren(rem, id)
        n == Cardinality(kids)
    IN {s \in [1..n -> kids] :
          /\ \A a, b \in 1..n : a # b => s[a] # s[b]
          /\ \A a, b \in 1..n : a < b => rem[s[a]].mtime >= rem[s[b]].mtime}

\* ancestors: resp["path"][1:], the directory itself and the directories above
\* it, the root excluded
RECURSIVE ancestors(_)
ancestors(id) == IF id = "root" THEN {} ELSE {id} \cup ancestors(ParentOf[id])

(***************************************************************************)
(* select_mtime_groups (shallow): live children grouped by mtime, handed   *)
(* to the walk newest group first.                                         *)
(***************************************************************************)
GroupIds(con, id, m) ==
    {i \in Ids : con[i].present /\ con[i].is_alive /\ con[i].parent_id = id /\ con[i].mtime = m}

RECURSIVE GroupsFrom(_, _, _)
GroupsFrom(con, id, m) ==
    IF m < 0 THEN <<>>
    ELSE (IF GroupIds(con, id, m) # {}
          THEN <<[mtime |-> m, ids |-> GroupIds(con, id, m)]>>
          ELSE <<>>) \o GroupsFrom(con, id, m - 1)

select_mtime_groups(con, id) == GroupsFrom(con, id, MaxMtime)

RECURSIVE SumLen(_)
SumLen(groups) ==
    IF groups = <<>> THEN 0 ELSE Cardinality(Head(groups).ids) + SumLen(Tail(groups))

(***************************************************************************)
(* diff_dir of the package: the walk over the remote listing.              *)
(***************************************************************************)
\* a walk that never queues anything for removal
his_kept(his_ids, seen_ids) == {}

\* his_ids - seen: what is queued for removal when a history group is left
his_minus_seen(his_ids, seen_ids) == his_ids \ seen_ids

\* while his_mtime > cur_mtime: ... next(his_it); stop records StopIteration
RECURSIVE his_advance(_, _)
his_advance(st, cur_mtime) ==
    IF st.his_mtime > cur_mtime
    THEN LET st1 == [st EXCEPT !.delete = @ \cup his_minus_seen(st.his_ids, st.seen),
                               !.remains = @ - Cardinality(st.his_ids)]
         IN IF st.his_it = <<>>
            THEN [st1 EXCEPT !.stop = TRUE]
            ELSE CHOOSE r \in {his_advance(x, cur_mtime) :
                                  x \in {[st1 EXCEPT !.his_mtime = Head(st.his_it).mtime,
                                                     !.his_ids = Head(st.his_it).ids,
                                                     !.his_it = Tail(st.his_it)]}} : TRUE
    ELSE st

\* one iteration of "for n, attr in enumerate(data_it, 1)"
diff_step(st, rem, cur_id, n, count) ==
    LET s0 == [st EXCEPT !.seen = @ \cup {cur_id},
                         !.dirs = IF cur_id \in DirIds THEN @ \cup {cur_id} ELSE @,
                         !.stop = FALSE]
    IN IF s0.remains # 0
       THEN LET s1 == his_advance(s0, rem[cur_id].mtime)
            IN IF s1.stop
               THEN s1
               ELSE IF s1.his_mtime = rem[cur_id].mtime /\ cur_id \in s1.his_ids
                    THEN IF n + (s1.remains - 1) = count
                         THEN [s1 EXCEPT !.remains = @ - 1, !.returned = TRUE]
                         ELSE [s1 EXCEPT !.remains = @ - 1, !.his_ids = @ \ {cur_id}]
                    ELSE [s1 EXCEPT !.upsert = @ \cup {cur_id}]
       ELSE [s0 EXCEPT !.upsert = @ \cup {cur_id}]

\* a walk that ends after its first remote entry, whatever the counts are
walk_ends_after_first(st, rem, lst, n) ==
    IF n > Len(lst) THEN st ELSE diff_step(st, rem, lst[n], n, Len(lst))

RECURSIVE diff_walk(_, _, _, _)
diff_walk(st, rem, lst, n) ==
    IF st.returned \/ n > Len(lst)
    THEN st
    ELSE CHOOSE r \in {diff_walk(x, rem, lst, n + 1) :
                          x \in {diff_step(st, rem, lst[n], n, Len(lst))}} : TRUE

RECURSIVE RestIds(_)
RestIds(groups) == IF groups = <<>> THEN {} ELSE Head(groups).ids \cup RestIds(Tail(groups))

\* the statements after the loop: what is left of the history is removed
diff_tail(st) ==
    IF st.returned \/ st.remains = 0
    THEN st
    ELSE [st EXCEPT !.delete = @ \cup his_minus_seen(st.his_ids, st.seen)
                                 \cup his_minus_seen(RestIds(st.his_it), st.seen)]

diff_dir(con, rem, id, lst) ==
    LET groups == select_mtime_groups(con, id)
        remains == SumLen(groups)
        st0 == [remains |-> remains,
                his_mtime |-> IF remains # 0 THEN Head(groups).mtime ELSE 0,
                his_ids |-> IF remains # 0 THEN Head(groups).ids ELSE {},
                his_it |-> IF remains # 0 THEN Tail(groups) ELSE <<>>,
                upsert |-> {}, delete |-> {}, dirs |-> {}, seen |-> {},
                stop |-> FALSE, returned |-> FALSE]
    IN CHOOSE r \in {[upsert |-> st.upsert, delete |-> st.delete, dirs |-> st.dirs] :
                       st \in {diff_tail(x) : x \in {diff_walk(y, rem, lst, 1) : y \in {st0}}}} : TRUE

\* a finally block that already writes every listed child
finally_writes_listing(con, rem, id, dirs) ==
    upsert_items(upsert_ancestors(con, ancestors(id)), rem, RemoteChildren(rem, id))

\* the finally block of diff_dir: its own transaction, committed before the
\* result is handed to the caller
diff_dir_finally(con, rem, id, dirs) ==
    upsert_items(upsert_ancestors(con, ancestors(id)), rem, dirs)

\* the transaction of updatedb_one: upsert_items(to_upsert); kill_items(to_delete)
apply_result(con, rem, res) ==
    kill_items(upsert_items(con, rem, res.upsert), res.delete)

(***************************************************************************)
(* SpecDiff: one updatedb_one call of the package on directory "top",      *)
(* from every mirror and every remote listing within the bounds.           *)
(***************************************************************************)
EmptyResult == [upsert |-> {}, delete |-> {}, dirs |-> {}]

MirrorRows(i) ==
    {NoRow} \cup {Row(ParentOf[i], m, i \in DirIds, a) : m \in Mtimes, a \in BOOLEAN}

RemoteEntries == {NoEntry} \cup {Entry(m) : m \in Mtimes}

\* no gateway is serving
NoRequest == [pickcode |-> "", id |-> "", sha1 |-> "", path |-> "", sign |-> <<>>, t |-> 0]

NoResponse == [status |-> 0, file |-> ""]

GatewayIdle ==
    /\ gw = "full"
    /\ token = ""
    /\ now = 0
    /\ req = NoRequest
    /\ resp = NoResponse
    /\ gpc = "idle"
    /\ ID_TO_PICKCODE = <<>>

\* no request is rate limited
RateIdle ==
    /\ rv = "full"
    /\ clock = 0
    /\ hpc = <<>>
    /\ hrange = <<>>
    /\ started = <<>>
    /\ hcall = <<>>
    /\ hresp = <<>>
    /\ URL_COOLDOWN = <<>>
    /\ URL_CACHE = <<>>
    /\ calls = 0

\* no dangling-id query has run
QueryIdle ==
    /\ qres = <<>>
    /\ qdone = {}
    /\ mv = <<>> /\ ld = <<>> /\ blob = <<>> /\ rsa = <<>> /\ fuse = <<>> /\ sp = <<>> /\ LaterIdle

\* the Sync Engine does not touch the gateways
SyncOnly == UNCHANGED <<gwVars, rateVars, queryVars, mv, ld, blob, rsa, fuse, sp, laterVars>>

SyncIdle ==
    /\ dq = <<>>
    /\ seen = {}
    /\ busy = {}
    /\ nbusy = 0
    /\ recursive = FALSE

\* a mirror and a remote drive given row by row
MirrorOf(t, s, a, b, g) ==
    [i \in Ids |-> CASE i = "top" -> t [] i = "sub" -> s [] i = "f1" -> a [] i = "f2" -> b [] OTHER -> g]

InitDiff ==
    /\ evo = "pkg"
    /\ cur = "top"
    /\ \E s, a, b \in RemoteEntries :
          remote = MirrorOf(Entry(1), s, a, b, NoEntry)
    /\ \E t \in {NoRow, Row("root", 1, TRUE, TRUE)} :
          \E s \in MirrorRows("sub"), a \in MirrorRows("f1"), b \in MirrorRows("f2") :
             data = MirrorOf(t, s, a, b, NoRow)
    /\ listing \in iterdir(remote, "top")
    /\ pc = "call"
    /\ result = EmptyResult
    /\ before = data
    /\ SyncIdle
    /\ GatewayIdle
    /\ RateIdle
    /\ QueryIdle

\* updatedb_one, first part: diff_dir computes the result and its finally
\* block commits the ancestors and the directories it saw
updatedb_one_diff ==
    /\ pc = "call"
    /\ \E res \in {diff_dir(data, remote, cur, listing)} :
          /\ result' = res
          /\ data' = diff_dir_finally(data, remote, cur, res.dirs)
    /\ pc' = "diffed"
    /\ UNCHANGED <<evo, remote, listing, cur, before, dq, seen, busy, nbusy, recursive>>
    /\ SyncOnly

\* updatedb_one, second part: the transaction that applies the result
updatedb_one_apply ==
    /\ pc = "diffed"
    /\ data' = apply_result(data, remote, result)
    /\ pc' = "done"
    /\ UNCHANGED <<evo, remote, listing, cur, result, before, dq, seen, busy, nbusy, recursive>>
    /\ SyncOnly

NextDiff == updatedb_one_diff \/ updatedb_one_apply

SpecDiff == InitDiff /\ [][NextDiff]_vars

(***************************************************************************)
(* The three cases of claim C2, stated on the mirror as it was when        *)
(* diff_dir was called and on the remote listing.                          *)
(***************************************************************************)
FileRows(rows) == {p \in rows : p[1] \notin DirIds}

CaseUnchanged == RemoteRows(remote, cur) = LiveRows(before, cur)

CaseFileAdded ==
    \E p \in FileRows(RemoteRows(remote, cur)) :
        /\ \A q \in LiveRows(before, cur) : q[1] # p[1]
        /\ RemoteRows(remote, cur) = LiveRows(before, cur) \cup {p}

CaseFileRemoved ==
    \E p \in FileRows(LiveRows(before, cur)) :
        RemoteRows(remote, cur) = LiveRows(before, cur) \ {p}

\* C2: when the live rows under the directory equalled an earlier listing
\* and the remote is unchanged, has one file more or has one file less,
\* diff_dir followed by the apply transaction leaves the live rows under the
\* directory identical to the current remote listing.
C2_DiffApplyMirrorsRemote ==
    (pc = "done" /\ (CaseUnchanged \/ CaseFileAdded \/ CaseFileRemoved))
        => LiveRows(data, cur) = RemoteRows(remote, cur)

\* C2 witness: a file that was live in the mirror and is gone from the remote
\* has been diffed and applied, next to a file that stayed.
C2_Witness ==
    /\ pc = "done"
    /\ CaseFileRemoved
    /\ ~CaseUnchanged
    /\ result.delete # {}
    /\ LiveRows(data, cur) # {}

(***************************************************************************)
(* Claim C3: what a concurrent reader of the mirror can observe between    *)
(* the two commits of one updatedb_one call.                               *)
(***************************************************************************)
\* C3 as stated: a reader sees none or all of the changes of one diff_dir
\* call.  The finally block of diff_dir commits first, so this is violated.
C3_ReaderSeesNoneOrAll ==
    pc = "diffed" => (data = before \/ data = apply_result(data, remote, result))

\* C3: the (upsert, delete) result that diff_dir returns is applied in one
\* transaction: until that transaction commits a reader finds every row
\* unchanged except the rows of the directory's ancestors and of the
\* directories seen in the listing, which diff_dir commits on its own.
C3_ResultAppliedInOneTransaction ==
    pc = "diffed" =>
        \A i \in Ids : i \notin (ancestors(cur) \cup result.dirs) => data[i] = before[i]

\* C3 witness: between the two commits the mirror already differs from what
\* it was, while a file of the result is still to be written.
C3_Witness ==
    /\ pc = "diffed"
    /\ data # before
    /\ (result.upsert \ result.dirs) # {}
    /\ result.dirs # {}

(***************************************************************************)
(* diff_dir of examples/updatedb.py.                                       *)
(***************************************************************************)
\* select_mtime_groups of the example: rows of mtime 0 are left out
example_select_mtime_groups(con, id) ==
    SelectSeq(GroupsFrom(con, id, MaxMtime), LAMBDA g : g.mtime # 0)

\* ids of lst[from..]
RECURSIVE RestOfListing(_, _)
RestOfListing(lst, from) ==
    IF from > Len(lst) THEN {} ELSE {lst[from]} \cup RestOfListing(lst, from + 1)

\* the inner while loop; "flushed" records the early exit taken when the
\* history is used up
RECURSIVE example_advance(_, _)
example_advance(st, cur_mtime) ==
    IF st.his_mtime > cur_mtime
    THEN LET st1 == [st EXCEPT !.delete = @ \cup (st.his_ids \ st.seen),
                               !.n = @ - Cardinality(st.his_ids)]
         IN IF st1.n = 0
            THEN [st1 EXCEPT !.flushed = TRUE]
            ELSE IF st.his_it = <<>>
                 THEN [st1 EXCEPT !.stop = TRUE]
                 ELSE CHOOSE r \in {example_advance(x, cur_mtime) :
                                       x \in {[st1 EXCEPT !.his_mtime = Head(st.his_it).mtime,
                                                          !.his_ids = Head(st.his_it).ids,
                                                          !.his_it = Tail(st.his_it)]}} : TRUE
    ELSE st

example_diff_step(st, rem, lst, k) ==
    LET cur_id == lst[k]
        s0 == [st EXCEPT !.seen = @ \cup {cur_id}]
        s1 == example_advance(s0, rem[cur_id].mtime)
    IN IF s1.flushed
       THEN [s1 EXCEPT !.upsert = @ \cup RestOfListing(lst, k), !.returned = TRUE]
       ELSE IF s1.stop
            THEN [s1 EXCEPT !.returned = TRUE]
            ELSE IF s1.his_mtime = rem[cur_id].mtime
                 THEN IF cur_id \in s1.his_ids
                      THEN IF Len(lst) - Cardinality(s1.seen) = s1.n - 1
                           THEN [s1 EXCEPT !.n = @ - 1, !.returned = TRUE]
                           ELSE [s1 EXCEPT !.n = @ - 1, !.his_ids = @ \ {cur_id}]
                      ELSE [s1 EXCEPT !.upsert = @ \cup {cur_id}]
                 ELSE [s1 EXCEPT !.upsert = @ \cup {cur_id}]

RECURSIVE example_walk(_, _, _, _)
example_walk(st, rem, lst, k) ==
    IF st.returned \/ k > Len(lst)
    THEN st
    ELSE CHOOSE r \in {example_walk(x, rem, lst, k + 1) :
                          x \in {example_diff_step(st, rem, lst, k)}} : TRUE

example_diff_dir(con, rem, id, lst) ==
    LET groups == example_select_mtime_groups(con, id)
        n == SumLen(groups)
        st0 == [n |-> n,
                his_mtime |-> IF n # 0 THEN Head(groups).mtime ELSE 0,
                his_ids |-> IF n # 0 THEN Head(groups).ids ELSE {},
                his_it |-> IF n # 0 THEN Tail(groups) ELSE <<>>,
                upsert |-> {}, delete |-> {}, seen |-> {},
                stop |-> FALSE, flushed |-> FALSE, returned |-> FALSE]
    IN IF n = 0
       THEN [upsert |-> RestOfListing(lst, 1), delete |-> {}, dirs |-> {}]
       ELSE CHOOSE r \in {[upsert |-> st.upsert,
                           delete |-> IF st.returned
                                      THEN st.delete
                                      ELSE st.delete \cup (RestIds(st.his_it) \ st.seen),
                           dirs |-> {}] :
                          st \in {example_walk(y, rem, lst, 1) : y \in {st0}}} : TRUE

\* the transaction of the example's updatedb_one: delete_items(to_delete);
\* insert_items(to_replace)
example_apply_result(con, rem, res) ==
    upsert_items(delete_items(con, res.delete), rem, res.upsert)

(***************************************************************************)
(* updatedb: the work-queue loop over directories.                         *)
(***************************************************************************)
\* select_subdir_ids: the live sub-directories recorded under a directory
select_subdir_ids(con, id) ==
    {i \in Ids : con[i].present /\ con[i].parent_id = id /\ con[i].is_dir /\ con[i].is_alive}

\* a set of ids as a sequence, in some order
SeqsOf(S) ==
    {s \in [1..Cardinality(S) -> S] : \A a, b \in 1..Cardinality(S) : a # b => s[a] # s[b]}

InQueue(q) == {q[k] : k \in 1..Len(q)}

\* a Busy directory that is simply forgotten
push_nothing(q, id) == q

\* push(id): the directory goes to the back of the queue
push(q, id) == Append(q, id)

\* the remote drive without a directory and everything below it
RemoteWithout(rem, id) ==
    [i \in Ids |-> IF id \in ancestors(i) THEN NoEntry ELSE rem[i]]

\* the ids that have a row in data
PresentIds(con) == {i \in Ids : con[i].present}

\* the walk "push(k); while k := d[k]: ..." of select_na_ids and
\* select_dangling_ids from the look-up d[k] on: d is the dict over the ids
\* d_ids, temp the ids pushed so far.  A parent of 0 ends the walk in the
\* else branch (ok); a parent already judged passes its verdict on; any
\* other parent is pushed before it is looked up, and looking up an id that
\* is not in d raises KeyError (na)
RECURSIVE walk_up(_, _, _, _, _, _)
walk_up(d_ids, con, k, temp, ok_ids, na_ids) ==
    IF k \notin d_ids THEN [verdict |-> "na", temp |-> temp]
    ELSE IF con[k].parent_id = "root" THEN [verdict |-> "ok", temp |-> temp]
    ELSE IF con[k].parent_id \in ok_ids THEN [verdict |-> "ok", temp |-> temp]
    ELSE IF con[k].parent_id \in na_ids THEN [verdict |-> "na", temp |-> temp]
    ELSE walk_up(d_ids, con, con[k].parent_id, temp \cup {con[k].parent_id}, ok_ids, na_ids)

\* the order in which the rows come out of the table
RowOrder == <<"top", "sub", "f1", "f2", "g1">>

\* the loop "for k, v in d.items()" over the rows still to do
RECURSIVE scan_rows(_, _, _, _, _)
scan_rows(d_ids, con, todo, ok_ids, na_ids) ==
    IF todo = <<>> THEN na_ids
    ELSE IF Head(todo) \notin d_ids
    THEN scan_rows(d_ids, con, Tail(todo), ok_ids, na_ids)
    ELSE CHOOSE r \in {IF w.verdict = "ok"
                       THEN scan_rows(d_ids, con, Tail(todo), ok_ids \cup w.temp, na_ids)
                       ELSE scan_rows(d_ids, con, Tail(todo), ok_ids, na_ids \cup w.temp)
                         : w \in {walk_up(d_ids, con, Head(todo), {Head(todo)}, ok_ids, na_ids)}} : TRUE

\* select_dangling_ids of the example: the walk over every row
select_dangling_ids(con) == scan_rows(PresentIds(con), con, RowOrder, {}, {})

\* select_na_ids of the package: the walk over the rows that are alive, with
\* the ids of the rows that are not alive taken as ok from the start
select_na_ids(con) ==
    scan_rows({i \in PresentIds(con) : con[i].is_alive}, con, RowOrder,
              {i \in PresentIds(con) : ~con[i].is_alive}, {})

\* iter_dangling_parent_ids: the parent ids that are not 0 and have no row
iter_dangling_parent_ids(con) ==
    {con[i].parent_id : i \in PresentIds(con)} \ ({"root"} \cup PresentIds(con))

\* iter_dangling_ids: the recursive query starts from data.parent_id of the
\* rows whose parent is dangling and, joining data on that same parent_id
\* under UNION ALL, produces the same values again without end
iter_dangling_ids(con) ==
    [ids |-> {con[i].parent_id : i \in {j \in PresentIds(con) :
                                          con[j].parent_id \in iter_dangling_parent_ids(con)}},
     endless |-> iter_dangling_parent_ids(con) # {}]

\* delete_na_dirs: directories without any row below them that the remote
\* no longer has (filter_na_ids) are deleted
delete_na_dirs(con, rem) ==
    delete_items(con, {i \in Ids : /\ con[i].present /\ con[i].is_dir
                                  /\ \A j \in Ids : ~(con[j].present /\ con[j].parent_id = i)
                                  /\ ~rem[i].exists})

\* delete_dangling_items
delete_dangling_items(con) ==
    delete_items(con, select_dangling_ids(con))

\* the mirror a complete earlier run left behind for a remote drive
MirrorOfRemote(rem) ==
    [i \in Ids |-> IF rem[i].exists THEN normalize_attr(rem, i) ELSE NoRow]

\* remote drives: a child exists only below an existing directory
RemoteDrives ==
    {MirrorOf(t, s, a, NoEntry, g) :
        t \in {Entry(1), NoEntry}, s \in RemoteEntries, a \in RemoteEntries,
        g \in RemoteEntries}

WellFormed(rem) == \A i \in Ids : rem[i].exists => \A j \in ancestors(i) : rem[j].exists

InitSync ==
    /\ evo \in {"pkg", "example"}
    /\ recursive \in BOOLEAN
    /\ \E earlier \in {r \in RemoteDrives : WellFormed(r) /\ r["top"].exists} :
          data = MirrorOfRemote(earlier)
    /\ remote \in {r \in RemoteDrives : WellFormed(r)}
    /\ dq \in {<<"top">>, <<"sub">>, <<"top", "sub">>}
    /\ seen = {}
    /\ busy = {}
    /\ nbusy = 0
    /\ pc = "run"
    /\ cur = "top"
    /\ listing = <<>>
    /\ result = EmptyResult
    /\ before = data
    /\ GatewayIdle
    /\ RateIdle
    /\ QueryIdle

\* a run that takes no directory for processed
never_processed(id, seen_ids) == FALSE

\* "if id in seen": the directory was diffed successfully in this run
already_processed(id, seen_ids) == id \in seen_ids

\* "if id in seen: continue"
updatedb_skip ==
    /\ pc = "run" /\ dq # <<>>
    /\ already_processed(Head(dq), seen)
    /\ dq' = Tail(dq)
    /\ cur' = Head(dq)
    /\ UNCHANGED <<evo, data, remote, listing, pc, result, before, seen, busy, nbusy, recursive>>
    /\ SyncOnly

\* one iteration in which updatedb_one succeeds
updatedb_good ==
    /\ pc = "run" /\ dq # <<>>
    /\ ~already_processed(Head(dq), seen)
    /\ remote[Head(dq)].exists
    /\ \E id \in {Head(dq)} : \E lst \in iterdir(remote, id) :
         \E res \in {IF evo = "pkg" THEN diff_dir(data, remote, id, lst)
                                     ELSE example_diff_dir(data, remote, id, lst)} :
         \E con \in {IF evo = "pkg"
                      THEN apply_result(diff_dir_finally(data, remote, id, res.dirs), remote, res)
                      ELSE example_apply_result(data, remote, res)} :
            /\ listing' = lst
            /\ result' = res
            /\ data' = con
            /\ seen' = seen \cup {id}
            /\ \E more \in SeqsOf(IF recursive THEN select_subdir_ids(con, id) ELSE {}) :
                  dq' = Tail(dq) \o more
            /\ cur' = id
            /\ busy' = busy \ {id}
    /\ UNCHANGED <<evo, remote, pc, before, nbusy, recursive>>
    /\ SyncOnly

\* one iteration in which the listing raises BusyOSError after k entries
updatedb_busy ==
    /\ pc = "run" /\ dq # <<>>
    /\ ~already_processed(Head(dq), seen)
    /\ remote[Head(dq)].exists
    /\ nbusy < MaxBusy
    /\ \E lst \in iterdir(remote, Head(dq)) : \E k \in 0..Len(lst) :
         LET id == Head(dq)
             dirs == {lst[j] : j \in 1..k} \cap DirIds
         IN /\ listing' = lst
            /\ data' = IF evo = "pkg" THEN diff_dir_finally(data, remote, id, dirs) ELSE data
            /\ dq' = push(Tail(dq), id)
            /\ cur' = id
            /\ busy' = busy \cup {id}
    /\ nbusy' = nbusy + 1
    /\ UNCHANGED <<evo, remote, pc, result, before, seen, recursive>>
    /\ SyncOnly

\* one iteration on a directory the remote does not have: the first page
\* answers for another directory (NotADirectoryError)
updatedb_not_a_directory ==
    /\ pc = "run" /\ dq # <<>>
    /\ ~already_processed(Head(dq), seen)
    /\ ~remote[Head(dq)].exists
    /\ data' = IF evo = "pkg" THEN data ELSE delete_items(data, {Head(dq)})
    /\ dq' = Tail(dq)
    /\ cur' = Head(dq)
    /\ busy' = busy \ {Head(dq)}
    /\ UNCHANGED <<evo, remote, listing, pc, result, before, seen, nbusy, recursive>>
    /\ SyncOnly

\* one iteration in which the directory disappears from the remote between
\* two pages of the listing (FileNotFoundError)
updatedb_not_found ==
    /\ pc = "run" /\ dq # <<>>
    /\ ~already_processed(Head(dq), seen)
    /\ remote[Head(dq)].exists
    /\ \E lst \in iterdir(remote, Head(dq)) : \E k \in 0..Len(lst) :
         LET id == Head(dq)
             dirs == {lst[j] : j \in 1..k} \cap DirIds
         IN /\ listing' = lst
            /\ data' = IF evo = "pkg"
                       THEN kill_items(diff_dir_finally(data, remote, id, dirs), {id})
                       ELSE delete_items(data, {id})
            /\ remote' = RemoteWithout(remote, id)
            /\ dq' = Tail(dq)
            /\ cur' = id
            /\ busy' = busy \ {id}
    /\ UNCHANGED <<evo, pc, result, before, seen, nbusy, recursive>>
    /\ SyncOnly

\* the end of the run; the example then cleans up when asked to
updatedb_finish ==
    /\ pc = "run" /\ dq = <<>>
    /\ \E clean \in BOOLEAN :
         data' = IF evo = "example" /\ clean
                 THEN delete_dangling_items(delete_na_dirs(data, remote))
                 ELSE data
    /\ pc' = "finished"
    /\ UNCHANGED <<evo, remote, listing, cur, result, before, dq, seen, busy, nbusy, recursive>>
    /\ SyncOnly

NextSync ==
    \/ updatedb_skip
    \/ updatedb_good
    \/ updatedb_busy
    \/ updatedb_not_a_directory
    \/ updatedb_not_found
    \/ updatedb_finish

SpecSync == InitSync /\ [][NextSync]_vars

\* a run over a fully populated drive, the mirror left by an earlier run
\* that saw one more file or an older sub-directory
InitRun ==
    /\ evo \in {"pkg", "example"}
    /\ recursive \in BOOLEAN
    /\ remote = MirrorOf(Entry(1), Entry(MaxMtime), Entry(1), NoEntry, Entry(1))
    /\ \E b \in {NoEntry, Entry(1)} :
          data = MirrorOfRemote(MirrorOf(Entry(1), Entry(1), Entry(1), b, Entry(1)))
    /\ dq \in {<<"top">>, <<"sub">>, <<"top", "sub">>}
    /\ seen = {}
    /\ busy = {}
    /\ nbusy = 0
    /\ pc = "run"
    /\ cur = "top"
    /\ listing = <<>>
    /\ result = EmptyResult
    /\ before = data
    /\ GatewayIdle
    /\ RateIdle
    /\ QueryIdle

\* the loop of updatedb keeps taking the next directory off the queue
SpecSyncFair == InitRun /\ [][NextSync]_vars /\ WF_vars(NextSync)

MaxTime == 3

Times == 1..MaxTime

\* the files on the remote drive, with every name a request can use
Drive ==
    { [file |-> "A", pickcode |-> "pcA", id |-> "idA", sha1 |-> "shA", path |-> "/A"],
      [file |-> "B", pickcode |-> "pcB", id |-> "idB", sha1 |-> "shB", path |-> "/B"] }

FileIds == {f.id : f \in Drive}

\* a pickcode that is not alphanumeric
BadPickcode == "pc-"

\* hashlib.sha1(bytes(f"302@115-{token}-{t}-{value}")).hexdigest(): the
\* digest is modelled as the triple it is computed over (sha1 taken as
\* injective); the empty string is the empty tuple
calc_sha1(tok, t, value) == <<"302@115", tok, t, value>>

EmptySign == <<>>

Reject(status) == [status |-> status, file |-> ""]

Passed == [status |-> 0, file |-> ""]

\* check_sign of web_115_302.py and web_115_302_video.py
check_sign(tok, sign, t, time, value) ==
    IF tok = "" THEN Passed
    ELSE IF sign # calc_sha1(tok, t, value) THEN Reject(403)
    ELSE IF t > 0 /\ t <= time THEN Reject(401)
    ELSE Passed

\* the remote drive's answer to a download-URL call for a pickcode
download_url(pickcode) ==
    [status |-> 302, file |-> (CHOOSE f \in Drive : f.pickcode = pickcode).file]

get_pickcode_by_id(cache, id) ==
    IF cache[id] # "" THEN cache[id]
    ELSE (CHOOSE f \in Drive : f.id = id).pickcode

get_pickcode_by_sha1(sha1) == (CHOOSE f \in Drive : f.sha1 = sha1).pickcode

get_pickcode_by_path(path) == (CHOOSE f \in Drive : f.path = path).pickcode

\* get_download_url of web_115_302.py (kind = "file", no Range header)
get_download_url(r, tok, time, cache) ==
    IF r.pickcode # ""
    THEN IF check_sign(tok, r.sign, r.t, time, r.pickcode) # Passed
         THEN check_sign(tok, r.sign, r.t, time, r.pickcode)
         ELSE IF r.pickcode = BadPickcode THEN Reject(400)
         ELSE download_url(r.pickcode)
    ELSE IF r.id # ""
    THEN IF check_sign(tok, r.sign, r.t, time, r.id) # Passed
         THEN check_sign(tok, r.sign, r.t, time, r.id)
         ELSE download_url(get_pickcode_by_id(cache, r.id))
    ELSE IF r.sha1 # ""
    THEN IF check_sign(tok, r.sign, r.t, time, r.sha1) # Passed
         THEN check_sign(tok, r.sign, r.t, time, r.sha1)
         ELSE download_url(get_pickcode_by_sha1(r.sha1))
    ELSE IF r.path = "" THEN Reject(400)
    ELSE IF check_sign(tok, r.sign, r.t, time, r.path) # Passed
         THEN check_sign(tok, r.sign, r.t, time, r.path)
         ELSE download_url(get_pickcode_by_path(r.path))

\* get_url of web_115_302_video.py: the same chain as get_download_url
get_url(r, tok, time, cache) == get_download_url(r, tok, time, cache)

\* get_url_by_pickcode and get_url_by_pickcode_or_name of
\* web_115_302_video.py call get_url with pickcode, id, sha1 and path (and
\* name) only: sign and t keep get_url's defaults "" and 0
video_route(r) == [r EXCEPT !.sign = EmptySign, !.t = 0]


\* index of web_115_302_mini.py: the id branch is taken only when the id is
\* not in ID_TO_PICKCODE; a cached id falls through to the sha1 branch
mini_index(r, cache) ==
    IF r.pickcode # ""
    THEN IF r.pickcode = BadPickcode THEN Reject(400)
         ELSE download_url(r.pickcode)
    ELSE IF r.id # "" /\ cache[r.id] = ""
    THEN download_url((CHOOSE f \in Drive : f.id = r.id).pickcode)
    ELSE IF r.sha1 # ""
    THEN download_url(get_pickcode_by_sha1(r.sha1))
    ELSE Reject(404)

\* index of web_115_302_tiny.py without share_code: pickcode, then sha1,
\* then id, then the name in the URL path
tiny_index(r, cache) ==
    IF r.pickcode # ""
    THEN IF r.pickcode = BadPickcode THEN Reject(400)
         ELSE download_url(r.pickcode)
    ELSE IF r.sha1 # ""
    THEN download_url(get_pickcode_by_sha1(r.sha1))
    ELSE IF r.id # ""
    THEN download_url(get_pickcode_by_id(cache, r.id))
    ELSE IF r.path # ""
    THEN download_url(get_pickcode_by_path(r.path))
    ELSE Reject(404)

\* the response of gateway g to request r
Respond(g, r, tok, time, cache) ==
    CASE g = "full" -> get_download_url(r, tok, time, cache)
      [] g = "video" -> get_url(video_route(r), tok, time, cache)
      [] g = "mini" -> mini_index(r, cache)
      [] g = "tiny" -> tiny_index(r, cache)

\* the id under which a served request stores the pickcode it resolved
CachedId(g, r, cache, served) ==
    CASE g = "full" -> (CHOOSE f \in Drive : f.file = served).id
      [] g = "video" -> IF r.pickcode # "" \/ r.id # "" THEN r.id
                        ELSE IF r.sha1 # "" THEN ""
                        ELSE (CHOOSE f \in Drive : f.file = served).id
      [] g = "mini" -> IF r.pickcode = "" /\ r.id # "" /\ cache[r.id] = "" THEN r.id ELSE ""
      [] g = "tiny" -> IF r.pickcode = "" /\ r.sha1 = "" THEN r.id ELSE ""

\* ID_TO_PICKCODE after gateway g has served request r
ID_TO_PICKCODE_after(g, r, tok, time, cache) ==
    LET out == Respond(g, r, tok, time, cache)
        key == CachedId(g, r, cache, out.file)
    IN  IF out.status = 302 /\ key \in FileIds
        THEN [cache EXCEPT ![key] = (CHOOSE f \in Drive : f.file = out.file).pickcode]
        ELSE cache

\* the first of pickcode, id, sha1, path that the request carries
Value(r) ==
    IF r.pickcode # "" THEN r.pickcode
    ELSE IF r.id # "" THEN r.id
    ELSE IF r.sha1 # "" THEN r.sha1
    ELSE r.path

\* the signatures tried: none, the right one, one over another value of the
\* request, one under a wrong token, one over another t
SignsFor(tok, t, r) ==
    IF tok = "" THEN {EmptySign}
    ELSE {EmptySign, calc_sha1("bad", t, Value(r)), calc_sha1(tok, 0, Value(r))}
         \cup {calc_sha1(tok, t, v) : v \in {r.pickcode, r.id, r.sha1, r.path} \ {""}}

Gateways == {"full", "video", "mini", "tiny"}

\* no updatedb call is running
SyncParked ==
    /\ evo = "pkg" /\ cur = "top" /\ pc = "idle"
    /\ remote = [i \in Ids |-> NoEntry]
    /\ data = [i \in Ids |-> NoRow]
    /\ before = data
    /\ listing = <<>>
    /\ result = EmptyResult
    /\ SyncIdle

\* ID_TO_PICKCODE as earlier requests left it: a part of the drive's ids
EarlierCaches ==
    {[i \in FileIds |-> IF i \in known THEN (CHOOSE f \in Drive : f.id = i).pickcode ELSE ""]
        : known \in SUBSET FileIds}

InitGateway ==
    /\ gw \in Gateways
    /\ token \in (IF gw \in {"full", "video"} THEN {"", "tok"} ELSE {""})
    /\ now \in 1..(MaxTime - 1)
    /\ \E p \in {"", BadPickcode} \cup {f.pickcode : f \in Drive},
          i \in {""} \cup FileIds,
          h \in {""} \cup {f.sha1 : f \in Drive},
          q \in {""} \cup {f.path : f \in Drive},
          t \in (IF token = "" THEN {0} ELSE {-1, 0} \cup Times) :
          \E sg \in SignsFor(token, t, [pickcode |-> p, id |-> i, sha1 |-> h, path |-> q]) :
              req = [pickcode |-> p, id |-> i, sha1 |-> h, path |-> q, sign |-> sg, t |-> t]
    /\ resp = NoResponse
    /\ gpc = "req"
    /\ ID_TO_PICKCODE \in EarlierCaches
    /\ SyncParked
    /\ RateIdle
    /\ QueryIdle

\* the gateway serves the request
gateway_handle ==
    /\ gpc = "req"
    /\ resp' = Respond(gw, req, token, now, ID_TO_PICKCODE)
    /\ ID_TO_PICKCODE' = ID_TO_PICKCODE_after(gw, req, token, now, ID_TO_PICKCODE)
    /\ gpc' = "done"
    /\ UNCHANGED <<gw, token, now, req>>
    /\ UNCHANGED <<syncVars, rateVars, queryVars, mv, ld, blob, rsa, fuse, sp, laterVars>>

NextGateway == gateway_handle

SpecGateway == InitGateway /\ [][NextGateway]_vars


\* the request reduced to the highest-priority one of pickcode, id, sha1,
\* path that it carries (sign and t kept)
HighestOnly(r) ==
    IF r.pickcode # "" THEN [r EXCEPT !.id = "", !.sha1 = "", !.path = ""]
    ELSE IF r.id # "" THEN [r EXCEPT !.sha1 = "", !.path = ""]
    ELSE IF r.sha1 # "" THEN [r EXCEPT !.path = ""]
    ELSE r

\* C5: in every gateway a request carrying several of pickcode, id, sha1,
\* path is answered exactly as the request carrying only the highest-priority
\* one present (pickcode > id > sha1 > path) would be answered.
C5_HighestPriorityWins ==
    [][gateway_handle =>
         resp' = Respond(gw, HighestOnly(req), token, now, ID_TO_PICKCODE)]_vars

\* the request is signed correctly over (token, t, value)
SignedCorrectly == req.sign = calc_sha1(token, req.t, Value(req))

\* C6: with a token configured, a request whose sign differs from
\* sha1("302@115-" + token + "-" + t + "-" + value) is answered 403, and a
\* correctly signed request whose non-zero t has elapsed is answered 401.
C6_MismatchIs403ElapsedIs401 ==
    (gpc = "done" /\ token # "" /\ Value(req) # "") =>
        /\ ~SignedCorrectly => resp.status = 403
        /\ (SignedCorrectly /\ req.t # 0 /\ req.t <= now) => resp.status = 401

\* C7: with a token configured, a request signed correctly over
\* (token, t, value) with t = 0 or t in the future passes the signature
\* check and is resolved, on every route of every signing gateway.
C7_SignedRequestIsResolved ==
    (gpc = "done" /\ token # "" /\ Value(req) # "" /\ SignedCorrectly
        /\ (req.t = 0 \/ req.t > now)) =>
        resp = Respond("full", req, "", now, ID_TO_PICKCODE)


(***************************************************************************)
(* Rate limiting and the short-lived URL cache.  Two requests for the same *)
(* pickcode from the same client address and user agent (not an exempt     *)
(* one) are served by web_115_302.py ("full"), web_115_302_video.py        *)
(* ("video"), both on one asyncio event loop, or by dav_115_302.py         *)
(* ("dav"), which serves each request on a thread of its own.  Time is     *)
(* counted in ticks of half a second.                                      *)
(***************************************************************************)
MaxClock == 3

\* URL_COOLDOWN = TTLCache(1024, ttl=0.5): half a second is one tick
CooldownTTL == 1

\* URL_CACHE = TTLCache(64, ttl=1): one second is two ticks
CacheTTL == 2

Handlers == {"h1", "h2"}

Ranges == {"bytes=0-", "bytes=9-"}

NoUrl == [url |-> 0, expires |-> 0]

\* key in TTLCache: the entry is there until its time to live has passed
Live(expires, time) == time < expires

\* cooldown_key in URL_COOLDOWN
in_cooldown(cooldown, range, time) == Live(cooldown[range], time)

\* URL_CACHE.get(key)
cache_get(cache, time) == IF Live(cache.expires, time) THEN cache.url ELSE 0

InitRate ==
    /\ rv \in {"full", "video", "dav"}
    /\ clock = 0
    /\ hpc = [p \in Handlers |-> "new"]
    /\ hrange \in [Handlers -> Ranges \cup {""}]
    /\ started = [p \in Handlers |-> 0]
    /\ hcall = [p \in Handlers |-> 0]
    /\ hresp = [p \in Handlers |-> [status |-> 0, url |-> 0]]
    /\ URL_COOLDOWN = [r \in Ranges |-> 0]
    /\ URL_CACHE = NoUrl
    /\ calls = 0
    /\ SyncParked
    /\ GatewayIdle
    /\ QueryIdle

RateOnly == UNCHANGED <<syncVars, gwVars, queryVars, mv, ld, blob, rsa, fuse, sp, laterVars>>

\* time passes
tick ==
    /\ clock < MaxClock
    /\ clock' = clock + 1
    /\ UNCHANGED <<rv, hpc, hrange, started, hcall, hresp, URL_COOLDOWN, URL_CACHE, calls>>
    /\ RateOnly

\* the handler makes the download-URL call and waits for the answer
call_remote(p) ==
    /\ calls' = calls + 1
    /\ hcall' = [hcall EXCEPT ![p] = calls + 1]
    /\ hpc' = [hpc EXCEPT ![p] = "await"]
    /\ UNCHANGED hresp

\* the handler answers without waiting
answer(p, status, url) ==
    /\ hresp' = [hresp EXCEPT ![p] = [status |-> status, url |-> url]]
    /\ hpc' = [hpc EXCEPT ![p] = "done"]
    /\ UNCHANGED <<calls, hcall>>

\* after the cooldown check has passed: the key is entered in URL_COOLDOWN
\* and the URL is taken from URL_CACHE or asked of the remote drive
enter_cooldown(p) ==
    /\ URL_COOLDOWN' = [URL_COOLDOWN EXCEPT ![hrange[p]] = clock + CooldownTTL]
    /\ IF cache_get(URL_CACHE, clock) # 0
       THEN answer(p, 302, cache_get(URL_CACHE, clock))
       ELSE call_remote(p)

\* get_download_url of web_115_302.py and get_url of web_115_302_video.py
\* from the Range test to the first await: one step of the event loop
gateway_enter(p) ==
    /\ rv \in {"full", "video"}
    /\ hpc[p] = "new"
    /\ started' = [started EXCEPT ![p] = clock]
    /\ IF hrange[p] = ""
       THEN call_remote(p) /\ UNCHANGED URL_COOLDOWN
       ELSE IF in_cooldown(URL_COOLDOWN, hrange[p], clock)
       THEN answer(p, 429, 0) /\ UNCHANGED URL_COOLDOWN
       ELSE enter_cooldown(p)
    /\ UNCHANGED <<rv, clock, hrange, URL_CACHE>>
    /\ RateOnly

\* get_url of dav_115_302.py on its thread, up to the cooldown check
dav_check_cooldown(p) ==
    /\ rv = "dav"
    /\ hpc[p] = "new"
    /\ started' = [started EXCEPT ![p] = clock]
    /\ IF hrange[p] = ""
       THEN call_remote(p)
       ELSE IF in_cooldown(URL_COOLDOWN, hrange[p], clock)
       THEN answer(p, 429, 0)
       ELSE /\ hpc' = [hpc EXCEPT ![p] = "checked"]
            /\ UNCHANGED <<calls, hcall, hresp>>
    /\ UNCHANGED <<rv, clock, hrange, URL_COOLDOWN, URL_CACHE>>
    /\ RateOnly

\* get_url of dav_115_302.py on its thread, after the cooldown check
dav_set_cooldown(p) ==
    /\ rv = "dav"
    /\ hpc[p] = "checked"
    /\ enter_cooldown(p)
    /\ UNCHANGED <<rv, clock, hrange, started, URL_CACHE>>
    /\ RateOnly

\* the remote drive answers the call with a URL of its own; a request with
\* a Range header stores it in URL_CACHE
remote_returns(p) ==
    /\ hpc[p] = "await"
    /\ hresp' = [hresp EXCEPT ![p] = [status |-> 302, url |-> hcall[p]]]
    /\ hpc' = [hpc EXCEPT ![p] = "done"]
    /\ URL_CACHE' = IF hrange[p] = "" THEN URL_CACHE
                    ELSE [url |-> hcall[p], expires |-> clock + CacheTTL]
    /\ UNCHANGED <<rv, clock, hrange, started, hcall, URL_COOLDOWN, calls>>
    /\ RateOnly

NextRate ==
    \/ tick
    \/ \E p \in Handlers : gateway_enter(p)
    \/ \E p \in Handlers : dav_check_cooldown(p)
    \/ \E p \in Handlers : dav_set_cooldown(p)
    \/ \E p \in Handlers : remote_returns(p)

SpecRate == InitRate /\ [][NextRate]_vars

BothDone == \A p \in Handlers : hpc[p] = "done"

\* the two requests began less than d ticks apart
Within(d) == started["h1"] - started["h2"] < d /\ started["h2"] - started["h1"] < d

\* C8: two requests with a Range header and the same (pickcode, client,
\* user agent, range), issued within 0.5 s of each other, end with exactly
\* one success and one 429, however the two handlers interleave.
C8_OneSuccessOne429 ==
    (BothDone /\ hrange["h1"] # "" /\ hrange["h1"] = hrange["h2"] /\ Within(CooldownTTL))
        => {hresp[p].status : p \in Handlers} = {302, 429}

\* C9: two resolutions of the same pickcode for the same (client, user
\* agent) within the 1 s window (requests with a Range header, neither
\* turned away by the cooldown) make at most one download-URL call and
\* return the same URL, also when the second arrives while the first waits.
C9_OneCallSameUrl ==
    (BothDone /\ Within(CacheTTL)
        /\ \A p \in Handlers : hrange[p] # "" /\ hresp[p].status = 302)
        => calls <= 1 /\ hresp["h1"].url = hresp["h2"].url


(***************************************************************************)
(* The dangling-id queries over a mirror: iter_dangling_ids and            *)
(* select_na_ids of p115updatedb/query.py, select_dangling_ids of          *)
(* examples/updatedb.py.                                                    *)
(***************************************************************************)
\* the rows a mirror can hold for id i: none, a live one or a dead one; the
\* parent is the one the drive gave, and for the top directory either the
\* root or a directory that has no row
QueryRows(i) ==
    {NoRow} \cup {Row(p, 1, i \in DirIds, a) :
                    p \in (IF i = "top" THEN {"root", "gone"} ELSE {ParentOf[i]}),
                    a \in BOOLEAN}

NoAnswer == [iter |-> [ids |-> {}, endless |-> FALSE], na |-> {}, dangling |-> {}]

InitQuery ==
    /\ \E t \in QueryRows("top"), s \in QueryRows("sub"), a \in QueryRows("f1"),
          b \in QueryRows("f2"), g \in QueryRows("g1") :
          data = MirrorOf(t, s, a, b, g)
    /\ qres = NoAnswer
    /\ qdone = {}
    /\ mv = <<>> /\ ld = <<>> /\ blob = <<>> /\ rsa = <<>> /\ fuse = <<>> /\ sp = <<>> /\ LaterIdle
    /\ evo = "pkg" /\ cur = "top" /\ pc = "idle"
    /\ remote = [i \in Ids |-> NoEntry]
    /\ before = data
    /\ listing = <<>>
    /\ result = EmptyResult
    /\ SyncIdle
    /\ GatewayIdle
    /\ RateIdle

QueryOnly == UNCHANGED <<syncVars, gwVars, rateVars, mv, ld, blob, rsa, fuse, sp, laterVars>>

run_iter_dangling_ids ==
    /\ "iter" \notin qdone
    /\ qres' = [qres EXCEPT !.iter = iter_dangling_ids(data)]
    /\ qdone' = qdone \cup {"iter"}
    /\ QueryOnly

run_select_na_ids ==
    /\ "na" \notin qdone
    /\ qres' = [qres EXCEPT !.na = select_na_ids(data)]
    /\ qdone' = qdone \cup {"na"}
    /\ QueryOnly

run_select_dangling_ids ==
    /\ "dangling" \notin qdone
    /\ qres' = [qres EXCEPT !.dangling = select_dangling_ids(data)]
    /\ qdone' = qdone \cup {"dangling"}
    /\ QueryOnly

NextQuery ==
    \/ run_iter_dangling_ids
    \/ run_select_na_ids
    \/ run_select_dangling_ids

SpecQuery == InitQuery /\ [][NextQuery]_vars

\* the rows whose parent_id is not 0 and has no row
DanglingRows(con) ==
    {i \in PresentIds(con) : con[i].parent_id \notin PresentIds(con) \cup {"root"}}

\* the rows below row i
RECURSIVE DescendantsOf(_, _)
DescendantsOf(con, i) ==
    LET kids == {j \in PresentIds(con) : con[j].parent_id = i}
    IN  kids \cup UNION {DescendantsOf(con, j) : j \in kids}

\* C10: in a mirror where one row's parent_id points to an id absent from
\* data, each dangling-id result is exactly that row's id and the ids of all
\* its descendants.
C10_DanglingIsRowAndDescendants ==
    (qdone = {"iter", "na", "dangling"} /\ Cardinality(DanglingRows(data)) = 1) =>
        \A i \in DanglingRows(data) :
            /\ qres.dangling = {i} \cup DescendantsOf(data, i)
            /\ qres.na = {i} \cup DescendantsOf(data, i)
            /\ qres.iter.ids = {i} \cup DescendantsOf(data, i)
            /\ ~qres.iter.endless


(***************************************************************************)
(* Directories that move on the remote drive while the Sync Engine lists   *)
(* them.  diff_dir (shallow) pulls the listing of a directory page by      *)
(* page: iterdir takes the ancestors from the path of the latest page, the *)
(* children from every page; the finally block of diff_dir writes the      *)
(* ancestors and then the directories seen, and updatedb_one applies the   *)
(* result.  All entries here are directories.                              *)
(***************************************************************************)
MaxMoves == 3

MoveIds == {"d", "x", "y", "z"}

\* the core components stand still
CoreIdle ==
    /\ SyncParked
    /\ GatewayIdle
    /\ RateIdle
    /\ qres = <<>>
    /\ qdone = {}

\* the directories directly under directory i on the remote drive
ChildrenOf(par, i) == {j \in MoveIds : par[j] = i}

\* j is directory i or lies below it
RECURSIVE IsUnder(_, _, _)
IsUnder(par, j, i) ==
    IF j = i THEN TRUE
    ELSE IF j = "root" THEN FALSE
    ELSE IsUnder(par, par[j], i)

\* resp["path"][1:] as {"id": cid, "parent_id": pid}: the directory and
\* the directories above it, the root left out
RECURSIVE path_ancestors(_, _)
path_ancestors(par, i) ==
    IF i = "root" THEN {}
    ELSE {[id |-> i, parent_id |-> par[i]]} \cup path_ancestors(par, par[i])

\* normalize_attr of the children listed on one page of directory cid
page_attrs(cid, page) == {[id |-> j, parent_id |-> cid] : j \in page}

NoMirrorRow == [present |-> FALSE, parent_id |-> "root", is_alive |-> FALSE]

\* upsert_items(con, items, extras={"is_alive": 1}): parent_id is written as
\* the item gives it
upsert_attrs(rows, items) ==
    [i \in MoveIds |->
        IF \E a \in items : a.id = i
        THEN [present |-> TRUE,
              parent_id |-> (CHOOSE a \in items : a.id = i).parent_id,
              is_alive |-> TRUE]
        ELSE rows[i]]

\* kill_items: UPDATE data SET is_alive=0
kill_rows(rows, ids) ==
    [i \in MoveIds |-> IF i \in ids /\ rows[i].present
                       THEN [rows[i] EXCEPT !.is_alive = FALSE] ELSE rows[i]]

\* the finally block of diff_dir: the ancestors, then the directories seen
finally_block(rows, anc, dirs) == upsert_attrs(upsert_attrs(rows, anc), dirs)

\* select_mtime_groups (shallow): the live rows under the directory
history_ids(rows, cid) ==
    {i \in MoveIds : rows[i].present /\ rows[i].is_alive /\ rows[i].parent_id = cid}

\* the mirror a complete run over the whole drive leaves behind
MirrorOfDrive(par) ==
    [i \in MoveIds |-> [present |-> TRUE, parent_id |-> par[i], is_alive |-> TRUE]]



InitMove ==
    /\ \E py \in {"root", "d"}, pz \in {"root", "d", "x"} :
          \E par \in {[i \in MoveIds |-> CASE i = "d" -> "root" [] i = "x" -> "d"
                                           [] i = "y" -> py [] i = "z" -> pz]} :
             mv = [parent |-> par, rows |-> MirrorOfDrive(par), pc |-> "idle",
                   cid |-> "root", anc |-> {}, dirs |-> {}, count |-> 0,
                   history |-> {}, moves |-> 0, racing |-> FALSE]
    /\ CoreIdle
    /\ ld = <<>> /\ blob = <<>> /\ rsa = <<>> /\ fuse = <<>> /\ sp = <<>> /\ LaterIdle

MoveOnly == UNCHANGED <<coreVars, ld, blob, rsa, fuse, sp, laterVars>>

\* somebody moves directory i under p on the remote drive
move_dir ==
    /\ mv.moves < MaxMoves
    /\ \E i \in MoveIds, p \in MoveIds \cup {"root"} :
          /\ p # mv.parent[i]
          /\ ~IsUnder(mv.parent, p, i)
          /\ mv' = [mv EXCEPT !.parent[i] = p, !.moves = @ + 1,
                              !.racing = @ \/ mv.pc = "paged"]
    /\ MoveOnly

\* diff_dir up to the end of the first page of iterdir: the history is
\* selected, the first response gives count, ancestors and the first children
diff_dir_first_page ==
    /\ mv.pc = "idle"
    /\ \E cid \in MoveIds :
          \E page \in SUBSET ChildrenOf(mv.parent, cid) :
             /\ page # {} \/ ChildrenOf(mv.parent, cid) = {}
             /\ mv' = [mv EXCEPT
                         !.cid = cid,
                         !.history = history_ids(mv.rows, cid),
                         !.count = Cardinality(ChildrenOf(mv.parent, cid)),
                         !.anc = path_ancestors(mv.parent, cid),
                         !.dirs = page_attrs(cid, page),
                         !.racing = FALSE,
                         !.pc = IF page = ChildrenOf(mv.parent, cid)
                                THEN "walked" ELSE "paged"]
    /\ MoveOnly

\* iterdir.iterate fetches the next page: ancestors are replaced by those
\* of the new response; a changed count or an id seen before raises
\* BusyOSError, otherwise the rest of the children is listed
diff_dir_next_page ==
    /\ mv.pc = "paged"
    /\ LET kids == ChildrenOf(mv.parent, mv.cid)
           seen_ids == {a.id : a \in mv.dirs}
       IN  IF mv.count # Cardinality(kids)
           THEN mv' = [mv EXCEPT !.anc = path_ancestors(mv.parent, mv.cid),
                                 !.pc = "raised"]
           ELSE \E page \in SUBSET kids :
                   /\ Cardinality(page) = mv.count - Cardinality(seen_ids)
                   /\ mv' = [mv EXCEPT
                               !.anc = path_ancestors(mv.parent, mv.cid),
                               !.dirs = IF page \cap seen_ids = {}
                                        THEN @ \cup page_attrs(mv.cid, page) ELSE @,
                               !.pc = IF page \cap seen_ids = {}
                                      THEN "walked" ELSE "raised"]
    /\ MoveOnly

\* BusyOSError leaves diff_dir through its finally block
diff_dir_raises ==
    /\ mv.pc = "raised"
    /\ mv' = [mv EXCEPT !.rows = finally_block(mv.rows, mv.anc, mv.dirs),
                        !.pc = "idle"]
    /\ MoveOnly

\* diff_dir returns through its finally block and updatedb_one applies the
\* result: the children listed are upserted, the history not listed killed
diff_dir_returns ==
    /\ mv.pc = "walked"
    /\ mv' = [mv EXCEPT
                !.rows = kill_rows(upsert_attrs(finally_block(mv.rows, mv.anc, mv.dirs), mv.dirs),
                                   mv.history \ {a.id : a \in mv.dirs}),
                !.pc = "idle"]
    /\ MoveOnly

NextMove ==
    \/ move_dir
    \/ diff_dir_first_page
    \/ diff_dir_next_page
    \/ diff_dir_raises
    \/ diff_dir_returns

SpecMove == InitMove /\ [][NextMove]_vars

\* the row reached from row i by n steps along parent_id over live rows
RECURSIVE StepsUp(_, _, _)
StepsUp(rows, i, n) ==
    IF n = 0 THEN i
    ELSE IF i \notin MoveIds \/ ~rows[i].present \/ ~rows[i].is_alive THEN "root"
    ELSE StepsUp(rows, rows[i].parent_id, n - 1)

\* row i lies on a cycle of live rows
OnCycle(rows, i) ==
    /\ rows[i].present /\ rows[i].is_alive
    /\ \E n \in 1..Cardinality(MoveIds) : StepsUp(rows, i, n) = i

\* C11: in every mirror state the diff-and-apply operations reach, the
\* parent relation over the live rows has no cycle.
C11_NoCycleAmongLiveRows == \A i \in MoveIds : ~OnCycle(mv.rows, i)


(***************************************************************************)
(* updatedb on a directory the remote drive does not list.                 *)
(***************************************************************************)
\* the iteration leaves the queue without its head, does not queue the
\* directory again, does not mark it processed, and the run goes on
SkippedWithoutRetry ==
    /\ dq' = Tail(dq)
    /\ cur' = Head(dq)
    /\ seen' = seen
    /\ pc' = "run"

\* C12 as stated: NotFound and not-a-directory both leave the directory
\* marked dead (is_alive = 0) in the mirror and skipped without retry.
C12_BothSignalsMarkDead ==
    [][(evo = "pkg" /\ (updatedb_not_found \/ updatedb_not_a_directory)) =>
          /\ SkippedWithoutRetry
          /\ data[Head(dq)].present => ~data'[Head(dq)].is_alive]_vars

\* C12 as the package has it: on NotFound the row of the directory is in
\* the mirror and marked dead, and no other row loses is_alive; on
\* not-a-directory the mirror is left as it was; either way the directory
\* is skipped without retry and the run goes on.
C12_NotFoundMarksDeadNotADirectorySkips ==
    [][evo = "pkg" =>
          /\ updatedb_not_found =>
                /\ SkippedWithoutRetry
                /\ data'[Head(dq)].present /\ ~data'[Head(dq)].is_alive
                /\ \A i \in Ids \ {Head(dq)} :
                      (data[i].present /\ data[i].is_alive) => data'[i].is_alive
          /\ updatedb_not_a_directory =>
                /\ SkippedWithoutRetry
                /\ data' = data]_vars

\* NotFound has struck the top directory and the run has gone on to the
\* rest of the queue
C12_Witness ==
    /\ evo = "pkg" /\ pc = "run"
    /\ cur = "top" /\ "top" \notin seen
    /\ data["top"].present /\ ~data["top"].is_alive
    /\ dq # <<>>

-----------------------------------------------------------------------------
\* updatedb with recursive = True and a positive auto_splitting_threshold.
\* The drive is a fixed tree of four directories; how many files each one
\* holds, which statistics calls time out, which directories are given as
\* top_dirs and the threshold are chosen at the start of a run.

MaxFiles == 2

SplitDirs == {"r", "a", "b", "c"}

\* "a" and "b" are in "r", "c" is in "a"
SplitParent == [d \in SplitDirs \ {"r"} |-> IF d = "c" THEN "a" ELSE "r"]

SplitChildren(d) == {c \in SplitDirs \ {"r"} : SplitParent[c] = d}

RECURSIVE SplitTree(_)
\* the directory and every directory under it
SplitTree(d) ==
    LET kids == SplitChildren(d)
    IN  {d} \cup UNION {SplitTree(c) : c \in kids}

RECURSIVE SumFiles(_, _)
SumFiles(files, ds) ==
    IF ds = {} THEN 0
    ELSE LET d == CHOOSE x \in ds : TRUE
         IN  files[d] + SumFiles(files, ds \ {d})

\* get_dir_size: the count the statistics call reports for the tree of cid,
\* or infinity when the call times out
get_dir_size(files, slow, cid) ==
    IF cid \in slow THEN [inf |-> TRUE, n |-> 0]
    ELSE [inf |-> FALSE, n |-> SumFiles(files, SplitTree(cid))]

need_to_split_tasks(count, auto_splitting_threshold) ==
    count.inf \/ count.n > auto_splitting_threshold

InitSplit ==
    /\ \E files \in [SplitDirs -> 0..MaxFiles] :
       \E slow \in SUBSET {"r", "a"} :
       \E tops \in (SUBSET SplitDirs) \ {{}} :
       \E q \in SeqsOf(tops) :
       \E th \in 1..(MaxFiles + 1) :
         sp = [files |-> files, slow |-> slow, threshold |-> th,
               dq |-> q, seen |-> {},
               cache_futures |-> [d \in tops |-> get_dir_size(files, slow, d)],
               pulled |-> [d \in SplitDirs |-> "no"],
               queued |-> [d \in SplitDirs |-> {}],
               mirrored |-> {}]
    /\ CoreIdle
    /\ mv = <<>> /\ ld = <<>> /\ blob = <<>> /\ rsa = <<>> /\ fuse = <<>> /\ LaterIdle

SplitOnly == UNCHANGED <<coreVars, mv, ld, blob, rsa, fuse, laterVars>>

\* "if id in seen: continue"
split_already_seen ==
    /\ sp # <<>> /\ sp.dq # <<>>
    /\ Head(sp.dq) \in sp.seen
    /\ sp' = [sp EXCEPT !.dq = Tail(sp.dq)]
    /\ SplitOnly

\* "if count <= 0: seen_add(id); continue"
split_count_not_positive ==
    /\ sp # <<>> /\ sp.dq # <<>>
    /\ \E id \in {Head(sp.dq)} : \E count \in {sp.cache_futures[id]} :
         /\ id \notin sp.seen
         /\ ~count.inf /\ count.n <= 0
         /\ sp' = [sp EXCEPT !.dq = Tail(sp.dq), !.seen = sp.seen \cup {id}]
    /\ SplitOnly

\* the count fits: updatedb_tree pulls the whole tree of id, nothing is queued
split_pull_tree ==
    /\ sp # <<>> /\ sp.dq # <<>>
    /\ \E id \in {Head(sp.dq)} : \E count \in {sp.cache_futures[id]} :
         /\ id \notin sp.seen
         /\ count.inf \/ count.n > 0
         /\ ~need_to_split_tasks(count, sp.threshold)
         /\ sp' = [sp EXCEPT !.dq = Tail(sp.dq), !.seen = sp.seen \cup {id},
                             !.pulled[id] = "tree",
                             !.mirrored = sp.mirrored \cup SplitTree(id)]
    /\ SplitOnly

\* the count is too big: updatedb_one pulls one level of id, then the
\* subdirectories found in the mirror are queued and their sizes requested
split_pull_one ==
    /\ sp # <<>> /\ sp.dq # <<>>
    /\ \E id \in {Head(sp.dq)} : \E count \in {sp.cache_futures[id]} :
         /\ id \notin sp.seen
         /\ count.inf \/ count.n > 0
         /\ need_to_split_tasks(count, sp.threshold)
         /\ \E con \in {sp.mirrored \cup {id} \cup SplitChildren(id)} :
            \E ids \in {{c \in con : c \in SplitChildren(id)}} :
            \E more \in SeqsOf(ids) :
              sp' = [sp EXCEPT !.dq = Tail(sp.dq) \o more,
                               !.seen = sp.seen \cup {id},
                               !.pulled[id] = "one",
                               !.queued[id] = ids,
                               !.mirrored = con,
                               !.cache_futures =
                                   [d \in (DOMAIN sp.cache_futures) \cup ids |->
                                      IF d \in DOMAIN sp.cache_futures
                                      THEN sp.cache_futures[d]
                                      ELSE get_dir_size(sp.files, sp.slow, d)]]
    /\ SplitOnly

NextSplit ==
    \/ split_already_seen
    \/ split_count_not_positive
    \/ split_pull_tree
    \/ split_pull_one

SpecSplit == InitSplit /\ [][NextSplit]_vars

\* C13: every directory updatedb has processed whose estimated count is at or
\* under the threshold was pulled as one tree and queued none of its
\* subdirectories, and every processed directory whose count exceeds the
\* threshold was pulled one level only and queued each of its immediate
\* subdirectories.
C13_FitPullsTreeBigPullsOneLevel ==
    sp # <<>> =>
      \A id \in sp.seen :
        IF need_to_split_tasks(sp.cache_futures[id], sp.threshold)
        THEN sp.pulled[id] = "one" /\ sp.queued[id] = SplitChildren(id)
        ELSE sp.pulled[id] = "tree" /\ sp.queued[id] = {}

\* the same, for the directories whose estimated count is positive
C13_PositiveCountFollowsThreshold ==
    sp # <<>> =>
      \A id \in sp.seen :
        (sp.cache_futures[id].inf \/ sp.cache_futures[id].n > 0) =>
          IF need_to_split_tasks(sp.cache_futures[id], sp.threshold)
          THEN sp.pulled[id] = "one" /\ sp.queued[id] = SplitChildren(id)
          ELSE sp.pulled[id] = "tree" /\ sp.queued[id] = {}

-----------------------------------------------------------------------------
\* The background loaders of the full gateway (one queue task) and of the
\* Video-oriented gateway (a batch task and a queue task), and the
\* administrative requests that act on them.  Tasks are left only at their
\* await points; a request handler runs to its end.  The password is not set.

MaxJobs == 2

Cids == {"0", "7"}

\* the directories of the periodic batch of the Video-oriented gateway
CIDS == {"0", "7"}

\* a test of the cid that is never met
skip_never_applies(cid, running_cid) == FALSE

\* "if not cid or cid == qcid" of /skip and /qskip
skip_applies(cid, running_cid) == cid = "" \/ cid = running_cid

\* a queue task that ends on every cancellation
queue_stops_on_cancel(g, msg) == "return"

\* what the queue task does with a CancelledError carrying msg
queue_after_skip(g, msg) ==
    IF msg = "shutdown" THEN "return"
    ELSE IF g = "full" /\ msg = "sleep" THEN "break"
    ELSE "continue"

\* a queue that hands out its newest item
QUEUE_get_newest(q) == [item |-> q[Len(q)], rest |-> SubSeq(q, 1, Len(q) - 1)]

\* QUEUE.get() on a queue that is not empty
QUEUE_get(q) == [item |-> Head(q), rest |-> Tail(q)]

\* a cancel request that never reaches the task
cancel_ignored(state, msg) == {state}

\* Task.cancel(msg) on a task: a second request before the first one is
\* handled leaves either message, depending on the interpreter version
cancel(state, msg) ==
    IF state = "none" THEN {"none"}
    ELSE IF state = "running" THEN {msg}
    ELSE {state, msg}

\* the finally block of the queue task
queue_finally(l) ==
    [l EXCEPT !.qcid = "", !.qrunning = "none",
              !.finished = Append(l.finished, l.started[Len(l.started)])]

\* the head of the while loop of the queue task: start the next job if one is
\* queued, wait in QUEUE.get() otherwise
queue_loop(l) ==
    IF l.QUEUE = <<>> THEN [l EXCEPT !.qtask = "get"]
    ELSE LET got == QUEUE_get(l.QUEUE)
         IN  [l EXCEPT !.qtask = "load", !.QUEUE = got.rest,
                       !.qcid = got.item.cid, !.qrunning = "running",
                       !.started = Append(l.started, got.item.n)]

\* the for loop of the batch task after one directory: load the next
\* directory of this round; when the round is over, sleep while
\* time() < start + interval (start is the time the round began), or begin
\* the next round at once when the round has lasted the interval already
batch_loop(l) ==
    IF l.bleft = {}
    THEN {[l EXCEPT !.btask = "wait", !.bcid = "", !.running = "none"]}
         \cup {[l EXCEPT !.btask = "load", !.bcid = c, !.running = "running",
                         !.bleft = CIDS \ {c}] : c \in CIDS}
    ELSE {[l EXCEPT !.btask = "load", !.bcid = c, !.running = "running",
                    !.bleft = l.bleft \ {c}] : c \in l.bleft}

InitLoad ==
    /\ \E g \in {"full", "video"} :
       \E l \in {[gw |-> g, QUEUE |-> <<>>, puts |-> 0, started |-> <<>>, finished |-> <<>>,
                  qtask |-> "get", qcid |-> "", qrunning |-> "none",
                  btask |-> "off", bcid |-> "", running |-> "none", bleft |-> CIDS,
                  shutdown |-> FALSE, resp |-> "", last |-> "start", arg |-> ""]} :
         ld \in IF g = "video" THEN batch_loop(l) ELSE {[l EXCEPT !.bleft = {}]}
    /\ CoreIdle
    /\ mv = <<>> /\ blob = <<>> /\ rsa = <<>> /\ fuse = <<>> /\ sp = <<>> /\ LaterIdle

LoadOnly == UNCHANGED <<coreVars, mv, blob, rsa, fuse, sp, laterVars>>

Serving == ld # <<>> /\ ~ld.shutdown

\* POST /run with a cid: QUEUE.put_nowait
do_run ==
    /\ Serving /\ ld.puts < MaxJobs
    /\ \E cid \in Cids :
         ld' = [ld EXCEPT !.QUEUE = Append(ld.QUEUE, [n |-> ld.puts + 1, cid |-> cid]),
                          !.puts = ld.puts + 1, !.resp = "ok", !.last = "run", !.arg = cid]
    /\ LoadOnly

\* POST /run without a cid (Video-oriented gateway): wake the sleeping batch
do_run_batch ==
    /\ Serving /\ ld.gw = "video"
    /\ IF ld.btask = "wait"
       THEN \E l \in batch_loop([ld EXCEPT !.bleft = CIDS]) :
              ld' = [l EXCEPT !.resp = "ok", !.last = "run_batch"]
       ELSE ld' = [ld EXCEPT !.resp = "skip", !.last = "run_batch"]
    /\ LoadOnly

\* POST /sleep (Video-oriented gateway): running_task.cancel("sleep")
do_sleep ==
    /\ Serving /\ ld.gw = "video"
    /\ \E st \in cancel(ld.running, "sleep") :
         ld' = [ld EXCEPT !.running = st,
                          !.resp = IF ld.running = "none" THEN "skip" ELSE "ok",
                          !.last = "sleep"]
    /\ LoadOnly

\* POST /skip of the Video-oriented gateway: running_task.cancel("skip")
do_skip ==
    /\ Serving /\ ld.gw = "video"
    /\ \E cid \in Cids \cup {""} :
       \E st \in IF skip_applies(cid, ld.bcid) THEN cancel(ld.running, "skip") ELSE {ld.running} :
         ld' = [ld EXCEPT !.running = st, !.resp = "ok", !.last = "skip", !.arg = cid]
    /\ LoadOnly

\* POST /skip of the full gateway, POST /qskip of the Video-oriented gateway:
\* qrunning_task.cancel("skip")
do_qskip ==
    /\ Serving
    /\ \E cid \in Cids \cup {""} :
       \E st \in IF skip_applies(cid, ld.qcid) THEN cancel(ld.qrunning, "skip") ELSE {ld.qrunning} :
         ld' = [ld EXCEPT !.qrunning = st, !.resp = "ok", !.last = "qskip", !.arg = cid]
    /\ LoadOnly

\* the queue task returns from QUEUE.get() and starts the load
queue_get ==
    /\ ld # <<>> /\ ld.qtask = "get" /\ ld.QUEUE # <<>>
    /\ ld' = [queue_loop(ld) EXCEPT !.last = "queue_get"]
    /\ LoadOnly

\* the load of the queued job ends, with a count or with an exception
queue_load_ends ==
    /\ ld # <<>> /\ ld.qtask = "load" /\ ld.qrunning = "running"
    /\ ld' = [queue_loop(queue_finally(ld)) EXCEPT !.last = "queue_load_ends"]
    /\ LoadOnly

\* the load of the queued job ends with CancelledError
queue_load_cancelled ==
    /\ ld # <<>> /\ ld.qtask = "load" /\ ld.qrunning \in {"skip", "sleep", "shutdown"}
    /\ \E todo \in {queue_after_skip(ld.gw, ld.qrunning)} :
         ld' = [(IF todo = "continue" THEN queue_loop(queue_finally(ld))
                 ELSE [queue_finally(ld) EXCEPT !.qtask = "stopped"])
                EXCEPT !.last = "queue_load_cancelled"]
    /\ LoadOnly

\* the load of one directory of the batch ends, with a count or an exception
batch_load_ends ==
    /\ ld # <<>> /\ ld.btask = "load" /\ ld.running = "running"
    /\ \E l \in batch_loop(ld) : ld' = [l EXCEPT !.last = "batch_load_ends"]
    /\ LoadOnly

\* the load of one directory of the batch ends with CancelledError
batch_load_cancelled ==
    /\ ld # <<>> /\ ld.btask = "load" /\ ld.running \in {"skip", "sleep", "shutdown"}
    /\ \E l \in (IF ld.running = "shutdown"
                 THEN {[ld EXCEPT !.btask = "stopped", !.bcid = "", !.running = "none"]}
                 ELSE IF ld.running = "sleep"
                 THEN batch_loop([ld EXCEPT !.bleft = {}])
                 ELSE batch_loop(ld)) :
         ld' = [l EXCEPT !.last = "batch_load_cancelled"]
    /\ LoadOnly

\* the sleep between two rounds of the batch is over
batch_wait_over ==
    /\ ld # <<>> /\ ld.btask = "wait" /\ ~ld.shutdown
    /\ \E l \in batch_loop([ld EXCEPT !.bleft = CIDS]) :
         ld' = [l EXCEPT !.last = "batch_wait_over"]
    /\ LoadOnly

\* the service stops: batch_task.cancel("shutdown"), queue_task.cancel("shutdown")
shutdown ==
    /\ Serving
    /\ \E qst \in cancel(ld.qrunning, "shutdown") :
       \E bst \in cancel(ld.running, "shutdown") :
         ld' = [ld EXCEPT !.shutdown = TRUE, !.last = "shutdown",
                          !.qrunning = qst, !.running = bst,
                          !.qtask = IF ld.qtask = "get" THEN "stopped" ELSE ld.qtask,
                          !.btask = IF ld.btask = "wait" THEN "stopped" ELSE ld.btask]
    /\ LoadOnly

NextLoad ==
    \/ do_run
    \/ do_run_batch
    \/ do_sleep
    \/ do_skip
    \/ do_qskip
    \/ queue_get
    \/ queue_load_ends
    \/ queue_load_cancelled
    \/ batch_load_ends
    \/ batch_load_cancelled
    \/ batch_wait_over
    \/ shutdown

SpecLoad == InitLoad /\ [][NextLoad]_vars

\* the tasks are scheduled by the event loop and every load comes to an end
SpecLoadFair ==
    /\ SpecLoad
    /\ WF_vars(queue_get) /\ WF_vars(queue_load_ends) /\ WF_vars(queue_load_cancelled)
    /\ WF_vars(batch_load_ends) /\ WF_vars(batch_load_cancelled)

\* a request to skip has just been answered
SkipStep == ld' # ld /\ ld'.last \in {"skip", "qskip"}

\* the queue task has just handled the cancellation of a skipped job
QueueSkipHandled ==
    ld' # ld /\ ld.qrunning = "skip" /\ ld'.last = "queue_load_cancelled"

\* the batch task has just handled the cancellation of a skipped directory
BatchSkipHandled ==
    ld' # ld /\ ld.running = "skip" /\ ld'.last = "batch_load_cancelled"

\* C14: a skip touches nothing but the load in progress and is answered; the
\* queue task and the batch task survive it, the queue task starting the next
\* queued job and the batch task the next directory of the round; and a
\* skipped job is always followed by the next one (unless the service is
\* stopped, or the batch is sent to sleep).
C14_SkipLeavesConsumerAlive ==
    /\ [][SkipStep =>
            /\ ld'.resp = "ok" /\ ~ld'.shutdown
            /\ ld'.qtask = ld.qtask /\ ld'.btask = ld.btask
            /\ ld'.QUEUE = ld.QUEUE /\ ld'.bleft = ld.bleft
            /\ ld'.started = ld.started /\ ld'.finished = ld.finished]_vars
    /\ [][QueueSkipHandled =>
            /\ ld'.qtask # "stopped"
            /\ ld.QUEUE # <<>> =>
                 /\ ld'.qrunning = "running"
                 /\ ld'.qcid = Head(ld.QUEUE).cid]_vars
    /\ [][BatchSkipHandled =>
            /\ ld'.btask # "stopped"
            /\ ld.bleft # {} => ld'.running = "running" /\ ld'.bcid \in ld.bleft]_vars
    /\ \A n \in 1..MaxJobs :
         (ld.qrunning = "skip" /\ Len(ld.started) = n /\ ld.QUEUE # <<>>)
            ~> (Len(ld.started) > n \/ ld.shutdown)
    /\ (ld.running = "skip" /\ ld.bleft # {})
            ~> (ld.running = "running" \/ ld.btask = "wait" \/ ld.shutdown)

\* the queue task of the full gateway has gone on to the second job after the
\* first one was skipped
C14_Witness ==
    /\ ld # <<>> /\ ld.gw = "full" /\ ~ld.shutdown
    /\ ld.last = "queue_load_cancelled"
    /\ ld.qtask = "load" /\ ld.qrunning = "running"
    /\ ld.started = <<1, 2>> /\ ld.finished = <<1>>

\* C15 as stated: in the Video-oriented gateway no request cancels a queued
\* job that is running; only shutdown does.
C15_QueuedJobNeverCancelled ==
    [][(ld.gw = "video" /\ ld.qrunning = "running" /\ ~ld'.shutdown)
          => ld'.qrunning # "skip"]_vars

\* C15: in the Video-oriented gateway POST /qskip, with no cid or with the
\* cid of the running queued job, cancels that job; the queue task itself
\* stops only when the service shuts down.
C15_QskipCancelsJobOnlyShutdownStopsTask ==
    /\ [][(ld.gw = "video" /\ ld' # ld /\ ld'.last = "qskip" /\ ld.qrunning = "running"
           /\ (ld'.arg = "" \/ ld'.arg = ld.qcid))
             => ld'.qrunning = "skip"]_vars
    /\ [][(ld.gw = "video" /\ ld.qtask # "stopped" /\ ld'.qtask = "stopped")
             => ld'.shutdown]_vars

\* POST /qskip has cancelled the running queued job of the Video-oriented gateway
C15_Witness ==
    /\ ld # <<>> /\ ld.gw = "video" /\ ~ld.shutdown
    /\ ld.last = "qskip" /\ ld.qrunning = "skip" /\ ld.qtask = "load"

\* C16: the jobs put by POST /run are started in the order they were put, the
\* load of a job starts only when every job started before it has been marked
\* done, and every job taken from the queue is marked done once, when its
\* load is over.
C16_FifoSerialDoneOnce ==
    ld # <<>> =>
      /\ \A i \in 1..Len(ld.started) : ld.started[i] = i
      /\ ld.finished = SubSeq(ld.started, 1,
                              Len(ld.started) - (IF ld.qrunning = "none" THEN 0 ELSE 1))
      /\ \A i \in 1..Len(ld.QUEUE) : ld.QUEUE[i].n = Len(ld.started) + i
      /\ (ld.qrunning = "none") = (ld.qtask \in {"get", "stopped"})

\* two jobs were put while the first was loading, and both are done
C16_Witness ==
    /\ ld # <<>> /\ ld.started = <<1, 2>> /\ ld.finished = <<1, 2>>
    /\ ld.qtask = "get" /\ ~ld.shutdown

-----------------------------------------------------------------------------
\* FileResource.get_content of the Served-DB Gateway, called by two request
\* threads for the same file id on the one connection of the provider.  The
\* blob of the file is two blocks long.

Threads == {"t1", "t2"}

\* the bytes urlopen(self.url).read() returns, and zeroblob(size)
Content == <<1, 2>>

Zeroblob == <<0, 0>>

\* the tables of the connection: data of the mirror, and data of the
\* database attached AS file (ServeDBProvider.__init__)
Tables == {[schema |-> "main", name |-> "data"], [schema |-> "file", name |-> "data"]}

\* DELETE FROM <name> WHERE id=?: the statement needs a table of that name
delete_from(name, row) ==
    IF \E t \in Tables : t.name = name
    THEN [raised |-> "", row |-> <<>>]
    ELSE [raised |-> "OperationalError", row |-> row]

\* con.blobopen("data", "data", fid, readonly=True, name="file")
blobopen(row) == IF row = <<>> THEN "OperationalError" ELSE "blob"

InitBlob ==
    /\ \E size \in {"small", "big"} :
         blob = [size |-> size, row |-> <<>>,
                 pc |-> [t \in Threads |-> "idle"],
                 raised |-> [t \in Threads |-> ""],
                 err |-> [t \in Threads |-> ""],
                 got |-> [t \in Threads |-> <<>>],
                 expired |-> {}]
    /\ CoreIdle
    /\ mv = <<>> /\ ld = <<>> /\ rsa = <<>> /\ fuse = <<>> /\ sp = <<>> /\ LaterIdle

BlobOnly == UNCHANGED <<coreVars, mv, ld, rsa, fuse, sp, laterVars>>

\* get_content up to the commit of the zeroblob row: the blob is returned if
\* it can be opened, a file of 64 KiB or more is redirected, else the row is
\* inserted, or reset if it exists already
get_content ==
    /\ blob # <<>>
    /\ \E t \in Threads :
         /\ blob.pc[t] = "idle"
         /\ IF blobopen(blob.row) = "blob"
            THEN blob' = [blob EXCEPT !.pc[t] = "opened", !.expired = blob.expired \ {t}]
            ELSE IF blob.size = "big"
            THEN blob' = [blob EXCEPT !.pc[t] = "redirected", !.err[t] = "DAVError 302"]
            ELSE blob' = [blob EXCEPT !.pc[t] = "fetch", !.row = Zeroblob,
                                      !.expired = {u \in Threads : blob.pc[u] = "opened"}]
    /\ BlobOnly

\* a second thread reaches the INSERT ... ON CONFLICT after having found no
\* row: both threads were past blobopen before either inserted
get_content_late_insert ==
    /\ blob # <<>> /\ blob.size = "small"
    /\ \E t \in Threads :
         /\ blob.pc[t] = "idle" /\ blob.row = <<>>
         /\ blob' = [blob EXCEPT !.pc[t] = "insert"]
    /\ BlobOnly

insert_zeroblob ==
    /\ blob # <<>>
    /\ \E t \in Threads :
         /\ blob.pc[t] = "insert"
         /\ blob' = [blob EXCEPT !.pc[t] = "fetch", !.row = Zeroblob,
                                 !.expired = {u \in Threads : blob.pc[u] = "opened"}]
    /\ BlobOnly

\* data = urlopen(self.url).read()
urlopen_read ==
    /\ blob # <<>>
    /\ \E t \in Threads : \E raised \in {"", "URLError"} :
         /\ blob.pc[t] = "fetch"
         /\ blob' = [blob EXCEPT !.pc[t] = IF raised = "" THEN "write" ELSE "except",
                                 !.raised[t] = raised]
    /\ BlobOnly

\* with write_lock: fdst.write(data), then the blob is opened for reading
write_blob ==
    /\ blob # <<>>
    /\ \E t \in Threads : \E raised \in {"", "ValueError"} :
         /\ blob.pc[t] = "write"
         /\ IF raised = ""
            THEN blob' = [blob EXCEPT !.pc[t] = "opened", !.row = Content,
                                      !.expired = blob.expired \ {t}]
            ELSE blob' = [blob EXCEPT !.pc[t] = "except", !.raised[t] = raised]
    /\ BlobOnly

\* except: DELETE FROM file WHERE id=?; commit; raise
except_delete ==
    /\ blob # <<>>
    /\ \E t \in Threads : \E res \in {delete_from("file", blob.row)} :
         /\ blob.pc[t] = "except"
         /\ blob' = [blob EXCEPT !.pc[t] = "failed", !.row = res.row,
                                 !.err[t] = IF res.raised = "" THEN blob.raised[t] ELSE res.raised,
                                 !.expired = IF res.raised = ""
                                             THEN {u \in Threads : blob.pc[u] = "opened"}
                                             ELSE blob.expired]
    /\ BlobOnly

\* the server reads the bytes of the response from the blob it was given; a
\* blob whose row was written by a statement since it was opened is expired
read_content ==
    /\ blob # <<>>
    /\ \E t \in Threads :
         /\ blob.pc[t] = "opened"
         /\ blob' = [blob EXCEPT !.pc[t] = "served",
                                 !.got[t] = IF t \in blob.expired THEN <<-1>> ELSE blob.row]
    /\ BlobOnly

NextBlob ==
    \/ get_content
    \/ get_content_late_insert
    \/ insert_zeroblob
    \/ urlopen_read
    \/ write_blob
    \/ except_delete
    \/ read_content

SpecBlob == InitBlob /\ [][NextBlob]_vars

\* C17: whatever the interleaving of two fetches of the same id, the bytes a
\* request is served from the blob are the fetched content.
C17_ReadersGetOneCompleteWrite ==
    blob # <<>> => \A t \in Threads : blob.got[t] \in {<<>>, Content}

\* C18: when the fetch or the write fails, the except block leaves no row for
\* the id and the request ends with the error that was raised.
C18_FailureDeletesRowAndPropagates ==
    [][\A t \in Threads :
         (blob.pc[t] = "except" /\ blob'.pc[t] = "failed")
            => (blob'.row = <<>> /\ blob'.err[t] = blob.raised[t])]_vars

-----------------------------------------------------------------------------
\* encrypt and decrypt of the tiny gateway (the request and the response side
\* of the m115 cipher).  Bytes, the XOR keys and the public exponent are those
\* of the source.  The modulus is a product of two small primes (6421 * 6427)
\* in place of the 1024-bit one, so a cipher block is CipherLen = 5 bytes in
\* place of 128 and a plain block BlockLen = 2 bytes in place of 117;
\* padding, blocking and key derivation are computed as the source does.

MaxPayload == 3

PayloadBytes == {0, 1, 141, 255}

BlockLen == 2

CipherLen == 5

\* named as in the source: RSA_n is the exponent, RSA_e the modulus
RSA_n == 65537

RSA_e == 41267767

\* G_kts[0], G_kts[12], ..., G_kts[132], the entries gen_key(_, 12) reads
G_kts == <<240, 125, 155, 38, 42, 143, 215, 235, 50, 186, 255, 92>>

\* b"\x8d\xa5\xa5\x8d"
KeyS == <<141, 165, 165, 141>>

\* b"x\x06\xadL3\x86]\x18L\x01?F"
KeyL == <<120, 6, 173, 76, 51, 134, 93, 24, 76, 1, 63, 70>>

RECURSIVE xor_bits(_, _, _)
\* a ^ b on k bits
xor_bits(a, b, k) ==
    IF k = 0 THEN 0
    ELSE ((a + b) % 2) + 2 * xor_bits(a \div 2, b \div 2, k - 1)

\* bytes_xor on two byte strings of the same length
bytes_xor(v1, v2) == [k \in 1..Len(v1) |-> xor_bits(v1[k], v2[k], 8)]

RECURSIVE from_bytes(_)
from_bytes(s) ==
    IF s = <<>> THEN 0
    ELSE from_bytes(SubSeq(s, 1, Len(s) - 1)) * 256 + s[Len(s)]

RECURSIVE to_bytes(_, _)
to_bytes(p, n) ==
    IF n = 0 THEN <<>> ELSE Append(to_bytes(p \div 256, n - 1), p % 256)

RECURSIVE byte_length(_)
\* (p.bit_length() + 0b111) >> 3
byte_length(p) == IF p = 0 THEN 0 ELSE 1 + byte_length(p \div 256)

RECURSIVE acc_step(_, _, _)
\* the (start, stop, step) triples acc_step yields, 0-based as in the source
acc_step(start, stop, step) ==
    IF start + step < stop
    THEN <<<<start, start + step, step>>>> \o acc_step(start + step, stop, step)
    ELSE IF start # stop THEN <<<<start, stop, stop - start>>>> ELSE <<>>

\* s[l:r]
Slice(s, l, r) == SubSeq(s, l + 1, r)

Reversed(s) == [k \in 1..Len(s) |-> s[Len(s) + 1 - k]]

RECURSIVE xor_chunks(_, _, _)
xor_chunks(src, key, steps) ==
    IF steps = <<>> THEN <<>>
    ELSE bytes_xor(Slice(src, steps[1][1], steps[1][2]), Slice(key, 0, steps[1][3]))
         \o xor_chunks(src, key, Tail(steps))

xor(src, key) ==
    LET i == Len(src) % 4
    IN  (IF i # 0 THEN bytes_xor(Slice(src, 0, i), Slice(key, 0, i)) ELSE <<>>)
        \o xor_chunks(src, key, acc_step(i, Len(src), Len(key)))

\* gen_key(rand_key, 12): index = i * 12 and length = 12 * (11 - i) in G_kts
gen_key(rand_key, sk_len) ==
    [k \in 1..sk_len |->
       xor_bits(G_kts[sk_len + 1 - k], (rand_key[k] + G_kts[k]) % 256, 8)]

\* a padding of zero bytes, which the stripping of decrypt cannot tell from
\* the end of the padding
pad_with_zeros(message) ==
    from_bytes(<<0>> \o [k \in 1..(CipherLen - 2 - Len(message)) |-> 0] \o <<0>> \o message)

\* b"\x00" + b"\x02" * (126 - len(message)) + b"\x00" + message, 126 being
\* the length of a cipher block less two
pad_pkcs1_v1_5(message) ==
    from_bytes(<<0>> \o [k \in 1..(CipherLen - 2 - Len(message)) |-> 2] \o <<0>> \o message)

RECURSIVE mul_mod(_, _, _, _)
\* acc + a * b modulo n, without leaving 32 bits
mul_mod(a, b, n, acc) ==
    IF b = 0 THEN acc
    ELSE mul_mod((a + a) % n, b \div 2, n, IF b % 2 = 1 THEN (acc + a) % n ELSE acc)

RECURSIVE pow_acc(_, _, _, _)
pow_acc(base, exp, n, acc) ==
    IF exp = 0 THEN acc
    ELSE pow_acc(CHOOSE r \in {mul_mod(x, x, n, 0) : x \in {base}} : TRUE,
                 exp \div 2, n,
                 IF exp % 2 = 1
                 THEN CHOOSE r \in {mul_mod(x, y, n, 0) : x \in {acc}, y \in {base}} : TRUE
                 ELSE acc)

\* pow(base, exp, mod)
pow(base, exp, mod) == pow_acc(base % mod, exp, mod, 1 % mod)

\* base64 text is kept as the bytes it stands for, marked as text
b64encode(s) == [b64 |-> s]

b64decode(t) == t.b64

RECURSIVE encrypt_blocks(_, _)
encrypt_blocks(view, steps) ==
    IF steps = <<>> THEN <<>>
    ELSE to_bytes(pow(pad_pkcs1_v1_5(Slice(view, steps[1][1], steps[1][2])), RSA_n, RSA_e), CipherLen)
         \o encrypt_blocks(view, Tail(steps))

encrypt(text) ==
    LET tmp == Reversed(xor(text, KeyS))
        xor_text == [k \in 1..16 |-> 0] \o xor(tmp, KeyL)
    IN  b64encode(encrypt_blocks(xor_text, acc_step(0, Len(xor_text), BlockLen)))

\* memoryview(b)[b.index(0)+1:] of the bytes of p, or the ValueError of index
strip_padding(p) ==
    LET b == to_bytes(p, byte_length(p))
        zeros == {k \in 1..Len(b) : b[k] = 0}
    IN  IF zeros = {} THEN [raised |-> "ValueError", data |-> <<>>]
        ELSE [raised |-> "",
              data |-> SubSeq(b, (CHOOSE k \in zeros : \A j \in zeros : k <= j) + 1, Len(b))]

RECURSIVE decrypt_blocks(_, _)
decrypt_blocks(cipher_data, steps) ==
    IF steps = <<>> THEN [raised |-> "", data |-> <<>>]
    ELSE LET got == CHOOSE r \in {strip_padding(p) :
                       p \in {pow(from_bytes(Slice(cipher_data, steps[1][1], steps[1][2])), RSA_n, RSA_e)}} : TRUE
         IN  IF got.raised # "" THEN got
             ELSE LET rest == decrypt_blocks(cipher_data, Tail(steps))
                  IN  IF rest.raised # "" THEN rest
                      ELSE [raised |-> "", data |-> got.data \o rest.data]

decrypt(cipher_text) ==
    LET cipher_data == b64decode(cipher_text)
        m == CHOOSE r \in {decrypt_blocks(c, acc_step(0, Len(c), CipherLen)) : c \in {cipher_data}} : TRUE
    IN  IF m.raised # "" THEN m
        ELSE IF Len(m.data) < 12 THEN [raised |-> "IndexError", data |-> <<>>]
        ELSE [raised |-> "",
              data |-> xor(Reversed(xor(Slice(m.data, 16, Len(m.data)),
                                        gen_key(Slice(m.data, 0, 16), 12))), KeyS)]

RECURSIVE Payloads(_)
\* the byte strings of length 1 to n over PayloadBytes
Payloads(n) ==
    IF n = 0 THEN {}
    ELSE Payloads(n - 1) \cup [1..n -> PayloadBytes]

InitRsa ==
    /\ \E payload \in Payloads(MaxPayload) :
         rsa = [pc |-> "payload", payload |-> payload, cipher |-> <<>>,
                plain |-> [raised |-> "", data |-> <<>>],
                key_s_twice |-> <<>>, key_l_twice |-> <<>>, unpadded |-> <<>>]
    /\ CoreIdle
    /\ mv = <<>> /\ ld = <<>> /\ blob = <<>> /\ fuse = <<>> /\ sp = <<>> /\ LaterIdle

RsaOnly == UNCHANGED <<coreVars, mv, ld, blob, fuse, sp, laterVars>>

\* encrypt(payload); the XOR steps applied twice and the padding of the first
\* block of the payload stripped again are kept beside the result
run_encrypt ==
    /\ rsa # <<>> /\ rsa.pc = "payload"
    /\ \E c \in {encrypt(rsa.payload)} :
       \E first \in {Slice(rsa.payload, 0, IF Len(rsa.payload) < BlockLen THEN Len(rsa.payload) ELSE BlockLen)} :
         rsa' = [rsa EXCEPT !.pc = "cipher", !.cipher = c.b64,
                   !.key_s_twice = xor(xor(rsa.payload, KeyS), KeyS),
                   !.key_l_twice = xor(xor(rsa.payload, KeyL), KeyL),
                   !.unpadded = strip_padding(pad_pkcs1_v1_5(first)).data]
    /\ RsaOnly

\* decrypt(encrypt(payload))
run_decrypt ==
    /\ rsa # <<>> /\ rsa.pc = "cipher"
    /\ \E res \in {decrypt(b64encode(rsa.cipher))} :
         rsa' = [rsa EXCEPT !.pc = "plain", !.plain = res]
    /\ RsaOnly

NextRsa ==
    \/ run_encrypt
    \/ run_decrypt

SpecRsa == InitRsa /\ [][NextRsa]_vars

\* C19 as stated: decrypt(encrypt(payload)) is payload.
C19_DecryptInvertsEncrypt ==
    (rsa # <<>> /\ rsa.pc = "plain") =>
        (rsa.plain.raised = "" /\ rsa.plain.data = rsa.payload)

\* C19: decrypt does not undo encrypt.  Both raise the block to the public
\* exponent and they use different long XOR keys, so decrypt(encrypt(payload))
\* raises or gives other bytes than payload.  The cipher text is one block of
\* CipherLen bytes for every BlockLen bytes, or part of them, of the 16 zero
\* bytes followed by the payload; each XOR step is undone by itself; and the
\* padding of a block is undone by the stripping of decrypt.
C19_EncryptIsNotUndoneByDecrypt ==
    (rsa # <<>> /\ rsa.pc # "payload") =>
        /\ Len(rsa.cipher) = CipherLen * ((16 + Len(rsa.payload) + BlockLen - 1) \div BlockLen)
        /\ rsa.key_s_twice = rsa.payload
        /\ rsa.key_l_twice = rsa.payload
        /\ rsa.unpadded = Slice(rsa.payload, 0, IF Len(rsa.payload) < BlockLen THEN Len(rsa.payload) ELSE BlockLen)
        /\ rsa.pc = "plain" => (rsa.plain.raised # "" \/ rsa.plain.data # rsa.payload)

\* a payload of one block and a remainder has gone through encrypt and decrypt
C19_Witness ==
    /\ rsa # <<>> /\ rsa.pc = "plain"
    /\ Len(rsa.payload) = BlockLen + 1
    /\ Len(rsa.cipher) = CipherLen * 10

-----------------------------------------------------------------------------
\* ServedbFuseOperations.read on file handles of one file.  The file is
\* MaxSize bytes at most and the pre-fetched prefix PrefetchLen = 2 bytes in
\* place of 2048; byte k of the file has the value k, so that bytes taken
\* from a wrong place differ.  One handle reads [a, b) and then [b, c), a
\* second handle reads [a, c).

MaxSize == 5

PrefetchLen == 2

FileBytes(size) == [k \in 1..size |-> k]

\* s[l:r] of a byte string, clamped to its length as Python does
slice_of(s, l, r) ==
    IF l >= Len(s) THEN <<>>
    ELSE SubSeq(s, l + 1, IF r < Len(s) THEN r ELSE Len(s))

\* the whole pre-read instead of its tail
preread_whole(preread, offset) == preread

\* preread[offset:]
preread_from(preread, offset) == slice_of(preread, offset, Len(preread))

\* file.read(n) at position pos of a reader on the file
file_read(size, pos, n) == slice_of(FileBytes(size), pos, pos + n)

\* _open(path, start): (file, preread); file is None for a file of at most
\* 2048 bytes, which is read whole
_open(size, start) ==
    IF size <= PrefetchLen
    THEN [file |-> FALSE, preread |-> file_read(size, 0, size)]
    ELSE IF start = 0
    THEN [file |-> TRUE, preread |-> file_read(size, 0, PrefetchLen)]
    ELSE [file |-> TRUE, preread |-> <<>>]

\* the bytes read(path, size, offset, fh) returns on the handle h
read(h, fsize, size, offset) ==
    LET cache_size == Len(h.preread)
    IN  IF ~h.file THEN slice_of(h.preread, offset, offset + size)
        ELSE IF offset < cache_size
        THEN IF offset + size <= cache_size
             THEN slice_of(h.preread, offset, offset + size)
             ELSE preread_from(h.preread, offset)
                  \o file_read(fsize, cache_size, offset + size - cache_size)
        ELSE file_read(fsize, offset, size)

InitFuse ==
    /\ \E size \in 1..MaxSize :
       \E a, b, c \in 0..(MaxSize + 1) :
         /\ a < b /\ b < c
         /\ fuse = [size |-> size, a |-> a, b |-> b, c |-> c,
                    fh_to_file |-> <<>>,
                    split |-> "", first |-> <<>>, second |-> <<>>,
                    covering |-> <<>>, covered |-> FALSE]
    /\ CoreIdle
    /\ mv = <<>> /\ ld = <<>> /\ blob = <<>> /\ rsa = <<>> /\ sp = <<>> /\ LaterIdle

FuseOnly == UNCHANGED <<coreVars, mv, ld, blob, rsa, sp, laterVars>>

\* read(path, b - a, a, fh=1): the handle is opened by its first read
read_first ==
    /\ fuse # <<>> /\ fuse.split = ""
    /\ \E h \in {_open(fuse.size, fuse.a)} :
         fuse' = [fuse EXCEPT !.split = "first", !.fh_to_file = h,
                              !.first = read(h, fuse.size, fuse.b - fuse.a, fuse.a)]
    /\ FuseOnly

\* read(path, c - b, b, fh=1) on the handle the first read opened
read_second ==
    /\ fuse # <<>> /\ fuse.split = "first"
    /\ fuse' = [fuse EXCEPT !.split = "second",
                            !.second = read(fuse.fh_to_file, fuse.size, fuse.c - fuse.b, fuse.b)]
    /\ FuseOnly

\* read(path, c - a, a, fh=2) on a handle of its own
read_covering ==
    /\ fuse # <<>> /\ ~fuse.covered
    /\ \E h \in {_open(fuse.size, fuse.a)} :
         fuse' = [fuse EXCEPT !.covered = TRUE,
                              !.covering = read(h, fuse.size, fuse.c - fuse.a, fuse.a)]
    /\ FuseOnly

NextFuse ==
    \/ read_first
    \/ read_second
    \/ read_covering

SpecFuse == InitFuse /\ [][NextFuse]_vars

\* C20: the bytes of two consecutive reads [a, b) and [b, c) on one handle,
\* put together, are the bytes of the one read [a, c), which are the bytes
\* a to c of the file, wherever b lies with respect to the pre-fetched prefix.
C20_SplitReadsEqualCoveringRead ==
    (fuse # <<>> /\ fuse.split = "second" /\ fuse.covered) =>
        /\ fuse.first \o fuse.second = fuse.covering
        /\ fuse.covering = slice_of(FileBytes(fuse.size), fuse.a, fuse.c)

\* the reads [0, 1) and [1, 3) of a file of five bytes, the second one
\* reaching over the end of the prefix, and the read [0, 3)
C20_Witness ==
    /\ fuse # <<>> /\ fuse.split = "second" /\ fuse.covered
    /\ fuse.size = MaxSize /\ fuse.a = 0 /\ fuse.b = 1 /\ fuse.c = PrefetchLen + 1
    /\ fuse.covering = <<1, 2, 3>>

-----------------------------------------------------------------------------
\* The components below each have one variable; the others stay at <<>>.

earlierVars == <<coreVars, mv, ld, blob, rsa, fuse, sp, lastVars>>

EarlierIdle ==
    /\ CoreIdle
    /\ mv = <<>> /\ ld = <<>> /\ blob = <<>> /\ rsa = <<>> /\ fuse = <<>> /\ sp = <<>>
    /\ LastIdle

settledVars == <<coreVars, mv, ld, blob, rsa, fuse, sp, web, mon, share, trav, reg, xp, prs, rq, adm>>

SettledIdle ==
    /\ CoreIdle
    /\ mv = <<>> /\ ld = <<>> /\ blob = <<>> /\ rsa = <<>> /\ fuse = <<>> /\ sp = <<>>
    /\ web = <<>> /\ mon = <<>> /\ share = <<>> /\ trav = <<>> /\ reg = <<>> /\ xp = <<>> /\ prs = <<>> /\ rq = <<>> /\ adm = <<>>

-----------------------------------------------------------------------------
\* The 115 DAV gateway answering requests for the bytes of one file
\* (get_page with a pickcode, get_url).  Sizes are counted in units of which
\* WebCeiling stands for 115 MiB.  The requests come from one client, so
\* there is one cooldown key and at most one cached URL for each interface.

MaxWebSize == 4

MaxWebRequests == 2

WebCeiling == 3

\* the values of the web query argument; "none" is an absent argument
WebArgs == {"none", "0", "false", "true", "1"}

\* normalize_attr: whether the url it builds for a file carries &web=true
normalize_attr_web(violated, size) == violated /\ size < WebCeiling

\* get_arg("web") not in (None, "0", "false")
use_web_api(arg) == arg \notin {"none", "0", "false"}

\* get_file_url: client.download_url(pickcode, use_web_api=...).  The web
\* interface is documented not to serve files of 115 MiB or more; nothing on
\* this side of it enforces that, so both outcomes are kept for such a file
dav_get_file_url(size, web_api) ==
    IF web_api
    THEN IF size >= WebCeiling THEN {"error", "web url"} ELSE {"web url"}
    ELSE {"app url"}

\* get_url: the answers it can give and the state it leaves
dav_get_url(w, arg, range) ==
    LET web_api == use_web_api(arg)
        slot == IF web_api THEN "web" ELSE "app"
    IN  IF range
        THEN IF w.URL_COOLDOWN
             THEN {[w EXCEPT !.answer = "429", !.url = ""]}
             ELSE IF w.URL_CACHE[slot] # ""
             THEN {[w EXCEPT !.URL_COOLDOWN = TRUE, !.url = w.URL_CACHE[slot],
                             !.answer = IF web_api THEN "web" ELSE "file"]}
             ELSE {IF u = "error"
                   THEN [w EXCEPT !.URL_COOLDOWN = TRUE, !.url = "", !.answer = "500"]
                   ELSE [w EXCEPT !.URL_COOLDOWN = TRUE, !.url = u, !.URL_CACHE[slot] = u,
                                  !.answer = IF web_api THEN "web" ELSE "file"]
                   : u \in dav_get_file_url(w.size, web_api)}
        ELSE {IF u = "error"
              THEN [w EXCEPT !.url = "", !.answer = "500"]
              ELSE [w EXCEPT !.url = u, !.answer = IF web_api THEN "web" ELSE "file"]
              : u \in dav_get_file_url(w.size, web_api)}

\* get_page for a file: open_file (the bytes pass through the gateway) when
\* the answer of get_url says web, a redirect to the url otherwise
dav_get_page(w, arg, range) ==
    {[r EXCEPT !.answer = IF r.answer = "web" THEN "proxied"
                          ELSE IF r.answer = "file" THEN "302"
                          ELSE r.answer,
               !.arg = arg, !.n = w.n + 1]
     : r \in dav_get_url(w, arg, range)}

InitWeb ==
    /\ \E size \in 0..MaxWebSize : \E violated \in BOOLEAN :
         web = [size |-> size, violated |-> violated,
                URL_COOLDOWN |-> FALSE, URL_CACHE |-> [k \in {"web", "app"} |-> ""],
                n |-> 0, arg |-> "none", listed |-> FALSE, url |-> "", answer |-> ""]
    /\ EarlierIdle /\ mon = <<>> /\ share = <<>> /\ trav = <<>> /\ reg = <<>> /\ xp = <<>> /\ prs = <<>> /\ rq = <<>> /\ adm = <<>>

WebOnly == UNCHANGED <<earlierVars, mon, share, trav, reg, xp, prs, rq, adm>>

\* the client follows the url normalize_attr built for the file
request_listed_url ==
    /\ web # <<>> /\ web.n < MaxWebRequests
    /\ \E range \in BOOLEAN :
       \E arg \in {IF normalize_attr_web(web.violated, web.size) THEN "true" ELSE "none"} :
       \E w \in dav_get_page(web, arg, range) :
         web' = [w EXCEPT !.listed = TRUE]
    /\ WebOnly

\* the client asks for the file with a web argument of its own
request_file ==
    /\ web # <<>> /\ web.n < MaxWebRequests
    /\ \E range \in BOOLEAN : \E arg \in WebArgs :
       \E w \in dav_get_page(web, arg, range) :
         web' = [w EXCEPT !.listed = FALSE]
    /\ WebOnly

\* the cooldown entry expires
cooldown_expires ==
    /\ web # <<>> /\ web.URL_COOLDOWN
    /\ web' = [web EXCEPT !.URL_COOLDOWN = FALSE]
    /\ WebOnly

NextWeb ==
    \/ request_listed_url
    \/ request_file
    \/ cooldown_expires

SpecWeb == InitWeb /\ [][NextWeb]_vars

\* C21: a request with web=true for a file at or above the ceiling is not
\* proxied: it is refused by the gateway or redirected to the direct url.
C21_BigFileNeverProxied ==
    (web # <<>> /\ web.n > 0 /\ use_web_api(web.arg) /\ web.size >= WebCeiling) =>
        web.answer \in {"429", "302"}

\* the urls the gateway itself lists never lead to a proxied answer, nor to
\* a failure, for a file at or above the ceiling
C21_ListedUrlOfBigFileIsRedirected ==
    (web # <<>> /\ web.n > 0 /\ web.listed /\ web.size >= WebCeiling) =>
        web.answer \in {"429", "302"}

-----------------------------------------------------------------------------
\* The Life-Event Monitor (main of life_list_monitor.py): the poll loop of
\* the main thread, the watch thread, and in queue mode the worker thread.
\* The sink is the collect argument; any call of it may raise.

MaxEvents == 3

\* collect(item) in the thread that found the item: the sink itself in
\* direct mode, queue.put in queue mode.  raises says that the sink raises
\* on this item
collect(st, item, raises) ==
    IF st.queue_collect
    THEN [st EXCEPT !.queue = Append(st.queue, [item |-> item, raises |-> raises])]
    ELSE IF raises
    THEN [st EXCEPT !.raised = TRUE]
    ELSE [st EXCEPT !.delivered = Append(st.delivered, item)]

InitMon ==
    /\ \E queue_collect \in BOOLEAN :
         mon = [queue_collect |-> queue_collect, running |-> TRUE,
                main |-> "poll", watch |-> "watch",
                worker |-> IF queue_collect THEN "work" ELSE "none",
                queue |-> <<>>, delivered |-> <<>>, logged |-> 0,
                get_id |-> 0, watched |-> 0, raised |-> FALSE]
    /\ EarlierIdle /\ web = <<>> /\ share = <<>> /\ trav = <<>> /\ reg = <<>> /\ xp = <<>> /\ prs = <<>> /\ rq = <<>> /\ adm = <<>>

MonOnly == UNCHANGED <<earlierVars, web, share, trav, reg, xp, prs, rq, adm>>

\* one turn of the poll loop in which life_list answers with one event: the
\* event is numbered and collected; an exception of collect leaves the loop
\* through "finally: running = False"
poll_event ==
    /\ mon # <<>> /\ mon.main = "poll" /\ mon.get_id < MaxEvents
    /\ \E raises \in BOOLEAN :
       \E st \in {collect([mon EXCEPT !.get_id = mon.get_id + 1], mon.get_id + 1, raises)} :
         mon' = IF st.raised
                THEN [st EXCEPT !.raised = FALSE, !.main = "dead", !.running = FALSE]
                ELSE st
    /\ MonOnly

\* one turn of the poll loop in which life_list raises: logged, next turn
poll_fails ==
    /\ mon # <<>> /\ mon.main = "poll" /\ mon.logged < MaxEvents
    /\ mon' = [mon EXCEPT !.logged = mon.logged + 1]
    /\ MonOnly

\* the watch thread finds a new or renamed file and collects it
watch_event ==
    /\ mon # <<>> /\ mon.watch = "watch" /\ mon.watched < MaxEvents
    /\ IF ~mon.running THEN mon' = [mon EXCEPT !.watch = "ended"]
       ELSE \E raises \in BOOLEAN :
            \E st \in {collect([mon EXCEPT !.watched = mon.watched + 1], 0, raises)} :
              mon' = IF st.raised
                     THEN [st EXCEPT !.raised = FALSE, !.watch = "dead"]
                     ELSE st
    /\ MonOnly

\* the worker thread takes a task from the queue and hands it to the sink
worker ==
    /\ mon # <<>> /\ mon.worker = "work" /\ mon.queue # <<>>
    /\ \E task \in {Head(mon.queue)} :
         mon' = [mon EXCEPT !.queue = Tail(mon.queue),
                            !.delivered = IF task.raises THEN mon.delivered
                                          ELSE Append(mon.delivered, task.item),
                            !.logged = IF task.raises /\ mon.logged < MaxEvents
                                       THEN mon.logged + 1 ELSE mon.logged,
                            !.worker = IF mon.running THEN "work" ELSE "ended"]
    /\ MonOnly

NextMon ==
    \/ poll_event
    \/ poll_fails
    \/ watch_event
    \/ worker

SpecMon == InitMon /\ [][NextMon]_vars

\* C22: whatever the sink raises, in direct mode and in queue mode, the poll
\* loop is still running.
C22_SinkFailureNeverStopsPolling ==
    mon # <<>> => (mon.main = "poll" /\ mon.running)

\* in queue mode the sink runs in the worker, which logs what it raises
C22_QueueModeKeepsPolling ==
    (mon # <<>> /\ mon.queue_collect) => (mon.main = "poll" /\ mon.worker = "work")

-----------------------------------------------------------------------------
\* The share download of the Tiny gateway (web_115_302_tiny.py): index,
\* get_receive_code and get_share_downurl for one share_code.  The remote
\* side answers each downurl call with a url, with errno 4100008 (the
\* receive code is stale) or with another error.

MaxStale == 3
MaxShareRequests == 3
ReceiveCodes == {"aaaa", "bbbb"}
STALE_RECEIVE_CODE == 4100008

\* get_receive_code(share_code): the cached code, else the code of shareinfo
\* (info, "" when shareinfo has state false), which is cached
get_receive_code(MAP, info) ==
    IF MAP # "" THEN [MAP |-> MAP, receive_code |-> MAP, ok |-> TRUE]
    ELSE IF info = "" THEN [MAP |-> MAP, receive_code |-> "", ok |-> FALSE]
    ELSE [MAP |-> info, receive_code |-> info, ok |-> TRUE]

InitShare ==
    /\ share = [RECEIVE_CODE_MAP |-> "", receive_code |-> "", phase |-> "idle",
                retries |-> 0, stale |-> 0, n |-> 0, answer |-> "none"]
    /\ EarlierIdle /\ web = <<>> /\ mon = <<>> /\ trav = <<>> /\ reg = <<>> /\ xp = <<>> /\ prs = <<>> /\ rq = <<>> /\ adm = <<>>

ShareOnly == UNCHANGED <<earlierVars, web, mon, trav, reg, xp, prs, rq, adm>>

\* index with share_code and id: the receive code of the request, else
\* get_receive_code; then the first call of get_share_downurl is under way
share_index ==
    /\ share # <<>> /\ share.phase = "idle" /\ share.n < MaxShareRequests
    /\ \E given \in ReceiveCodes \cup {""}, info \in ReceiveCodes \cup {""} :
       \E g \in {IF given = "" THEN get_receive_code(share.RECEIVE_CODE_MAP, info)
                 ELSE [MAP |-> share.RECEIVE_CODE_MAP, receive_code |-> given, ok |-> TRUE]} :
         share' = [share EXCEPT !.RECEIVE_CODE_MAP = g.MAP,
                                !.receive_code = g.receive_code,
                                !.phase = IF g.ok THEN "downurl" ELSE "idle",
                                !.answer = IF g.ok THEN "none" ELSE "FileNotFoundError",
                                !.retries = 0, !.stale = 0, !.n = share.n + 1]
    /\ ShareOnly

\* get_share_downurl: the remote side answers with state true
share_downurl_ok ==
    /\ share # <<>> /\ share.phase = "downurl"
    /\ share' = [share EXCEPT !.phase = "idle", !.answer = "url"]
    /\ ShareOnly

\* get_share_downurl: the remote side answers with another error
share_downurl_error ==
    /\ share # <<>> /\ share.phase = "downurl"
    /\ share' = [share EXCEPT !.phase = "idle", !.answer = "OSError"]
    /\ ShareOnly

\* get_share_downurl: the remote side answers errno 4100008; when the map had
\* a code for the share it is popped, looked up again and the call repeated
share_downurl_stale ==
    /\ share # <<>> /\ share.phase = "downurl" /\ share.stale < MaxStale
    /\ \E errno \in {STALE_RECEIVE_CODE}, info \in ReceiveCodes \cup {""} :
       IF errno = 4100008 /\ share.RECEIVE_CODE_MAP # ""
       THEN \E g \in {get_receive_code("", info)} :
              share' = [share EXCEPT !.RECEIVE_CODE_MAP = g.MAP,
                                     !.receive_code = g.receive_code,
                                     !.stale = share.stale + 1,
                                     !.phase = IF g.ok THEN "downurl" ELSE "idle",
                                     !.answer = IF g.ok THEN "none" ELSE "FileNotFoundError",
                                     !.retries = IF g.ok THEN share.retries + 1
                                                 ELSE share.retries]
       ELSE share' = [share EXCEPT !.stale = share.stale + 1,
                                   !.phase = "idle", !.answer = "OSError"]
    /\ ShareOnly

NextShare ==
    \/ share_index
    \/ share_downurl_ok
    \/ share_downurl_error
    \/ share_downurl_stale

SpecShare == InitShare /\ [][NextShare]_vars

\* C23: however often the remote side repeats the stale-code error, one
\* request repeats the download call at most once.
C23_AtMostOneRetryPerRequest ==
    share # <<>> => share.retries <= 1

\* every repetition follows a stale-code answer and a renewed lookup
C23_RetryOnlyAfterStaleAnswer ==
    share # <<>> => share.retries <= share.stale

-----------------------------------------------------------------------------
\* The listing functions of the query layer (query.py) over the data table:
\* iter_children, iter_descendants (depth first top down and bottom up,
\* breadth first) and iter_dup_files.  A row is [id, parent_id, is_dir,
\* is_alive, sha1]; the table is read in the order of the ids.

MaxTravId == 5
TravIds == 1..MaxTravId
TravParent == [i \in TravIds |-> IF i \in {2, 3} THEN 1 ELSE IF i = 4 THEN 2 ELSE 0]
TravDirs == {0, 1, 2}
TravDepths == {-1, 1, 2}
EnsureFile == {"None", "True", "False"}

TravTables ==
    {[i \in TravIds |-> [id |-> i, parent_id |-> TravParent[i],
                         is_dir |-> IF i \in TravDirs THEN 1 ELSE 0,
                         is_alive |-> IF i \in dead THEN 0 ELSE 1,
                         sha1 |-> IF i \in other THEN "y" ELSE "x"]] :
        dead \in SUBSET TravIds, other \in SUBSET {5}}

RECURSIVE select_from(_, _, _)
\* SELECT ... FROM data WHERE <where>: the rows from id i on, in order
select_from(rows, where(_), i) ==
    IF i > MaxTravId THEN <<>>
    ELSE (IF where(rows[i]) THEN <<rows[i]>> ELSE <<>>) \o select_from(rows, where, i + 1)

\* the listing of a directory without the is_alive condition
children_dead_or_alive(rows, parent_id, ensure_file) ==
    LET where(r) == /\ r.parent_id = parent_id
                    /\ ensure_file = "True" => r.is_dir = 0
                    /\ ensure_file = "False" => r.is_dir = 1
    IN  select_from(rows, where, 1)

\* iter_children: WHERE parent_id=? AND is_alive [AND [NOT] is_dir]
iter_children(rows, parent_id, ensure_file) ==
    LET where(r) == /\ r.parent_id = parent_id /\ r.is_alive # 0
                    /\ ensure_file = "True" => r.is_dir = 0
                    /\ ensure_file = "False" => r.is_dir = 1
    IN  select_from(rows, where, 1)

\* the three-way test on ensure_file that decides whether attr is yielded
yielded(attr, ensure_file) ==
    IF ensure_file = "None" THEN TRUE
    ELSE IF attr.is_dir # 0 THEN ensure_file = "False"
    ELSE ensure_file = "True"

RECURSIVE iter_descendants(_, _, _, _, _)
RECURSIVE descend_each(_, _, _, _, _)
\* iter_descendants with topdown True or False: depth first
iter_descendants(rows, parent_id, max_depth, ensure_file, topdown) ==
    descend_each(rows,
                 iter_children(rows, parent_id,
                               IF ensure_file = "False" THEN "False" ELSE "None"),
                 IF max_depth > 0 THEN max_depth - 1 ELSE max_depth,
                 ensure_file, topdown)

descend_each(rows, attrs, max_depth, ensure_file, topdown) ==
    IF attrs = <<>> THEN <<>>
    ELSE LET attr == Head(attrs)
             own == IF yielded(attr, ensure_file) THEN <<attr>> ELSE <<>>
             below == IF attr.is_dir # 0 /\ max_depth # 0
                      THEN iter_descendants(rows, attr.id, max_depth, ensure_file, topdown)
                      ELSE <<>>
         IN  (IF topdown THEN own \o below ELSE below \o own)
             \o descend_each(rows, Tail(attrs), max_depth, ensure_file, topdown)

RECURSIVE bfs_descendants(_, _, _)
\* iter_descendants with topdown None: breadth first over the queue of
\* bfs_gen, whose entries are <<parent_id, depth>>
bfs_descendants(rows, gen, ensure_file) ==
    IF gen = <<>> THEN <<>>
    ELSE LET parent_id == Head(gen)[1]
             depth == IF Head(gen)[2] > 0 THEN Head(gen)[2] - 1 ELSE Head(gen)[2]
             attrs == iter_children(rows, parent_id,
                                    IF ensure_file = "False" THEN "False" ELSE "None")
             sent == SelectSeq(attrs, LAMBDA a : a.is_dir # 0 /\ depth # 0)
             out == SelectSeq(attrs, LAMBDA a : yielded(a, ensure_file))
         IN  out \o bfs_descendants(rows,
                     Tail(gen) \o [k \in 1..Len(sent) |-> <<sent[k].id, depth>>],
                     ensure_file)

\* iter_dup_files: the alive files whose (sha1, size) partition has more
\* than one alive file
iter_dup_files(rows) ==
    LET stats(r) == r.is_dir = 0 /\ r.is_alive # 0
        total(r) == Cardinality({i \in TravIds : stats(rows[i]) /\ rows[i].sha1 = r.sha1})
        where(r) == stats(r) /\ total(r) > 1
    IN  select_from(rows, where, 1)

InitTrav ==
    /\ \E rows \in TravTables :
         trav = [rows |-> rows, op |-> "none", parent_id |-> 0, out |-> <<>>]
    /\ EarlierIdle /\ web = <<>> /\ mon = <<>> /\ share = <<>> /\ reg = <<>> /\ xp = <<>> /\ prs = <<>> /\ rq = <<>> /\ adm = <<>>

TravOnly == UNCHANGED <<earlierVars, web, mon, share, reg, xp, prs, rq, adm>>

run_iter_children ==
    /\ trav # <<>>
    /\ \E parent_id \in TravDirs, ensure_file \in EnsureFile :
         trav' = [trav EXCEPT !.op = "iter_children", !.parent_id = parent_id,
                              !.out = iter_children(trav.rows, parent_id, ensure_file)]
    /\ TravOnly

run_iter_descendants ==
    /\ trav # <<>>
    /\ \E parent_id \in TravDirs, max_depth \in TravDepths,
          ensure_file \in EnsureFile, topdown \in BOOLEAN :
         trav' = [trav EXCEPT !.op = "iter_descendants", !.parent_id = parent_id,
                              !.out = iter_descendants(trav.rows, parent_id, max_depth,
                                                       ensure_file, topdown)]
    /\ TravOnly

run_iter_descendants_bfs ==
    /\ trav # <<>>
    /\ \E parent_id \in TravDirs, max_depth \in TravDepths, ensure_file \in EnsureFile :
         trav' = [trav EXCEPT !.op = "iter_descendants_bfs", !.parent_id = parent_id,
                              !.out = bfs_descendants(trav.rows, <<<<parent_id, max_depth>>>>,
                                                      ensure_file)]
    /\ TravOnly

run_iter_dup_files ==
    /\ trav # <<>>
    /\ trav' = [trav EXCEPT !.op = "iter_dup_files", !.parent_id = 0,
                            !.out = iter_dup_files(trav.rows)]
    /\ TravOnly

NextTrav ==
    \/ run_iter_children
    \/ run_iter_descendants
    \/ run_iter_descendants_bfs
    \/ run_iter_dup_files

SpecTrav == InitTrav /\ [][NextTrav]_vars

\* C24: no row yielded by the children listing, by a depth-first or
\* breadth-first enumeration of descendants or by the duplicate detection
\* has is_alive = 0.
C24_OnlyAliveRowsAreYielded ==
    trav # <<>> => \A k \in DOMAIN trav.out : trav.out[k].is_alive = 1

\* an enumeration of descendants has yielded rows from a directory that
\* also holds a row with is_alive = 0
C24_Witness ==
    /\ trav # <<>> /\ trav.op \in {"iter_descendants", "iter_descendants_bfs"}
    /\ Len(trav.out) >= 2
    /\ \E i \in TravIds : /\ trav.rows[i].is_alive = 0
                          /\ trav.rows[i].parent_id = trav.parent_id

-----------------------------------------------------------------------------
\* The dir table of the package next to its data table: diff_dir with its
\* finally block, the transaction of updatedb_one, and update_stared_dirs,
\* from empty tables, over a remote drive that changes between the calls.
\* A row of dir is [present, mtime].

MaxRegChanges == 2
MaxRegCalls == 3

NoDirRow == [present |-> FALSE, mtime |-> 0]

\* an insert into dir that writes nothing
insert_no_dir_items(dirtab, rem, ids) == dirtab

\* insert_dir_items: upsert of (id, parent_id, name, mtime) into dir
insert_dir_items(dirtab, rem, ids) ==
    [i \in DirIds |-> IF i \in ids THEN [present |-> TRUE, mtime |-> rem[i].mtime]
                      ELSE dirtab[i]]

\* upsert_items(con, ancestors, table="dir"): id, parent_id and name only;
\* a new row gets the default mtime 0
upsert_dir_ancestors(dirtab, ids) ==
    [i \in DirIds |-> IF i \in ids
                      THEN [present |-> TRUE,
                            mtime |-> IF dirtab[i].present THEN dirtab[i].mtime ELSE 0]
                      ELSE dirtab[i]]

\* the finally block of diff_dir on the dir table and on CID_TO_PID
dir_finally(st, rem, id, dirs) ==
    [st EXCEPT !.con = diff_dir_finally(st.con, rem, id, dirs),
               !.dir = insert_dir_items(upsert_dir_ancestors(st.dir, ancestors(id)), rem, dirs),
               !.CID_TO_PID = @ \cup ancestors(id) \cup dirs]

\* SELECT COALESCE(MAX(mtime), 0) FROM dir
max_dir_mtime(dirtab) ==
    LET ms == {dirtab[i].mtime : i \in {j \in DirIds : dirtab[j].present}}
    IN  IF ms = {} THEN 0 ELSE CHOOSE m \in ms : \A k \in ms : k <= m

RECURSIVE takewhile(_, _, _, _)
\* takewhile(attr["mtime"] > mtime or attr["id"] not in CID_TO_PID, stared)
takewhile(stared, rem, mtime, known) ==
    IF stared = <<>> THEN {}
    ELSE IF rem[Head(stared)].mtime > mtime \/ Head(stared) \notin known
    THEN {Head(stared)} \cup takewhile(Tail(stared), rem, mtime, known)
    ELSE {}

\* update_stared_dirs: the new directories go to dir and to data
update_stared_dirs(st, rem, stared) ==
    LET got == takewhile(stared, rem, max_dir_mtime(st.dir), st.CID_TO_PID)
    IN  IF got = {} THEN st
        ELSE [st EXCEPT !.dir = insert_dir_items(st.dir, rem, got),
                        !.con = upsert_items(st.con, rem, got),
                        !.CID_TO_PID = @ \cup got]

\* the starred directories of the drive, newest first
iter_stared_dirs(rem) ==
    UNION {LET n == Cardinality(S)
           IN  {s \in [1..n -> S] :
                  /\ \A a, b \in 1..n : a # b => s[a] # s[b]
                  /\ \A a, b \in 1..n : a < b => rem[s[a]].mtime >= rem[s[b]].mtime} :
           S \in SUBSET {i \in DirIds : rem[i].exists}}

RegRemotes ==
    {MirrorOf(Entry(1), s, a, NoEntry, g) : s, a, g \in RemoteEntries}

InitReg ==
    /\ \E rem \in RegRemotes :
         reg = [con |-> [i \in Ids |-> NoRow], dir |-> [i \in DirIds |-> NoDirRow],
                CID_TO_PID |-> {}, remote |-> rem, result |-> EmptyResult,
                phase |-> "idle", changes |-> 0, calls |-> 0]
    /\ EarlierIdle /\ web = <<>> /\ mon = <<>> /\ share = <<>> /\ trav = <<>> /\ xp = <<>> /\ prs = <<>> /\ rq = <<>> /\ adm = <<>>

RegOnly == UNCHANGED <<earlierVars, web, mon, share, trav, xp, prs, rq, adm>>

\* the directories diff_dir can be called on: the root and the remote ones
RegTargets(rem) == {"root"} \cup {i \in DirIds : rem[i].exists}

\* diff_dir runs to its return: the result is kept for the caller, the
\* finally block has committed
reg_diff_dir ==
    /\ reg # <<>> /\ reg.phase = "idle" /\ reg.calls < MaxRegCalls
    /\ \E id \in RegTargets(reg.remote) :
       \E lst \in iterdir(reg.remote, id) :
       \E res \in {diff_dir(reg.con, reg.remote, id, lst)} :
         reg' = [dir_finally(reg, reg.remote, id, res.dirs)
                   EXCEPT !.result = res, !.phase = "diffed", !.calls = reg.calls + 1]
    /\ RegOnly

\* diff_dir is left by an exception of the listing (BusyOSError,
\* FileNotFoundError) after k entries: only the finally block acts
reg_diff_dir_raises ==
    /\ reg # <<>> /\ reg.phase = "idle" /\ reg.calls < MaxRegCalls
    /\ \E id \in RegTargets(reg.remote) :
       \E lst \in iterdir(reg.remote, id) :
       \E k \in 0..Len(lst) :
       \E res \in {diff_dir(reg.con, reg.remote, id, SubSeq(lst, 1, k))} :
         reg' = [dir_finally(reg, reg.remote, id, res.dirs)
                   EXCEPT !.calls = reg.calls + 1]
    /\ RegOnly

\* the transaction of updatedb_one on the result of diff_dir
reg_apply ==
    /\ reg # <<>> /\ reg.phase = "diffed"
    /\ reg' = [reg EXCEPT !.con = apply_result(reg.con, reg.remote, reg.result),
                          !.result = EmptyResult, !.phase = "idle"]
    /\ RegOnly

reg_update_stared_dirs ==
    /\ reg # <<>> /\ reg.phase = "idle" /\ reg.calls < MaxRegCalls
    /\ \E stared \in iter_stared_dirs(reg.remote) :
         reg' = [update_stared_dirs(reg, reg.remote, stared)
                   EXCEPT !.calls = reg.calls + 1]
    /\ RegOnly

\* the drive changes: an entry is created, touched or removed
reg_remote_changes ==
    /\ reg # <<>> /\ reg.phase = "idle" /\ reg.changes < MaxRegChanges
    /\ \E i \in Ids \ {"top", "f2"}, e \in RemoteEntries :
         /\ e # reg.remote[i]
         /\ reg' = [reg EXCEPT !.remote[i] = e, !.changes = reg.changes + 1]
    /\ RegOnly

NextReg ==
    \/ reg_diff_dir
    \/ reg_diff_dir_raises
    \/ reg_apply
    \/ reg_update_stared_dirs
    \/ reg_remote_changes

SpecReg == InitReg /\ [][NextReg]_vars

\* every directory row of data has a row in dir
DirSupersetOfData ==
    reg # <<>> =>
        \A i \in Ids : (reg.con[i].present /\ reg.con[i].is_dir) =>
                          (i \in DirIds /\ reg.dir[i].present)

\* no step removes a row from dir
DirAppendOnly ==
    (reg # <<>> /\ reg' # <<>>) =>
        \A i \in DirIds : reg.dir[i].present => reg'.dir[i].present

\* C25: across any sequence of sync operations no row is removed from dir,
\* and every directory id written to data has a row in dir.
C25_DirAppendOnlySuperset ==
    []DirSupersetOfData /\ [][DirAppendOnly]_vars

\* a directory of the mirror was marked dead after it left the drive, and
\* its row is still in dir
C25_Witness ==
    /\ reg # <<>>
    /\ reg.con["sub"].present /\ ~reg.con["sub"].is_alive
    /\ reg.dir["sub"].present /\ reg.dir["top"].present
    /\ ~reg.remote["sub"].exists

-----------------------------------------------------------------------------
\* export_dir_parse_iter (export_dir.py): a generator.  Its first next()
\* submits the export and waits for it, asks for the download url, and only
\* then enters "try: ... finally: if delete: client.fs_delete(file_id)".
\* artifacts counts the exported files that exist on the remote side.

MaxLines == 2
MaxExports == 3

InitXp ==
    /\ \E delete \in BOOLEAN, lines \in 0..MaxLines :
         xp = [delete |-> delete, lines |-> lines, at |-> "new", pos |-> 0,
               created |-> FALSE, deleted |-> FALSE, artifacts |-> 0, exports |-> 1]
    /\ EarlierIdle /\ web = <<>> /\ mon = <<>> /\ share = <<>> /\ trav = <<>> /\ reg = <<>> /\ prs = <<>> /\ rq = <<>> /\ adm = <<>>

XpOnly == UNCHANGED <<earlierVars, web, mon, share, trav, reg, prs, rq, adm>>

\* finally: if delete: client.fs_delete(result["file_id"])
export_finally(x, at) ==
    IF x.delete
    THEN [x EXCEPT !.at = at, !.deleted = TRUE, !.artifacts = x.artifacts - 1]
    ELSE [x EXCEPT !.at = at]

\* the first next(): export_dir and future.result() make the artifact; then
\* download_url answers or raises; then the file is opened (or open raises)
\* and the first line is yielded, or the file has no line
xp_first_next ==
    /\ xp # <<>> /\ xp.at = "new"
    /\ \E export_ok \in BOOLEAN, url_ok \in BOOLEAN, open_ok \in BOOLEAN :
       \E x \in {[xp EXCEPT !.created = TRUE, !.artifacts = xp.artifacts + 1]} :
         xp' = IF ~export_ok THEN [xp EXCEPT !.at = "raised"]
               ELSE IF ~url_ok THEN [x EXCEPT !.at = "raised"]
               ELSE IF ~open_ok THEN export_finally(x, "raised")
               ELSE IF x.lines = 0 THEN export_finally(x, "exhausted")
               ELSE [x EXCEPT !.at = "yield", !.pos = 1]
    /\ XpOnly

\* a later next(): the next line, StopIteration after the last one, or an
\* exception of parse_iter
xp_next ==
    /\ xp # <<>> /\ xp.at = "yield"
    /\ \E parse_ok \in BOOLEAN :
         xp' = IF ~parse_ok THEN export_finally(xp, "raised")
               ELSE IF xp.pos = xp.lines THEN export_finally(xp, "exhausted")
               ELSE [xp EXCEPT !.pos = xp.pos + 1]
    /\ XpOnly

\* close(): GeneratorExit at the yield; nothing runs in a generator that
\* was not started
xp_close ==
    /\ xp # <<>> /\ xp.at \in {"new", "yield"}
    /\ xp' = IF xp.at = "new" THEN [xp EXCEPT !.at = "closed"]
             ELSE export_finally(xp, "closed")
    /\ XpOnly

\* the caller makes the next generator
xp_again ==
    /\ xp # <<>> /\ xp.at \in {"closed", "exhausted", "raised"} /\ xp.exports < MaxExports
    /\ \E delete \in BOOLEAN, lines \in 0..MaxLines :
         xp' = [xp EXCEPT !.delete = delete, !.lines = lines, !.at = "new", !.pos = 0,
                          !.created = FALSE, !.deleted = FALSE,
                          !.exports = xp.exports + 1]
    /\ XpOnly

NextXp ==
    \/ xp_first_next
    \/ xp_next
    \/ xp_close
    \/ xp_again

SpecXp == InitXp /\ [][NextXp]_vars

XpFinished == xp.at \in {"closed", "exhausted", "raised"}

\* C26: once the generator is closed, exhausted or otherwise finished, the
\* export it created has been deleted if delete is true, and has not been
\* deleted if delete is false.
C26_CreatedExportDeletedUnlessDeleteFalse ==
    (xp # <<>> /\ XpFinished /\ xp.created) => (xp.deleted <=> xp.delete)

\* with delete false no artifact is ever deleted
C26_DeleteFalseNeverDeletes ==
    (xp # <<>> /\ ~xp.delete) => ~xp.deleted

\* a generator that yielded a line deletes its export when it finishes
C26_DeletedOnceALineWasYielded ==
    (xp # <<>> /\ XpFinished /\ xp.pos > 0 /\ xp.delete) => xp.deleted

-----------------------------------------------------------------------------
\* parse_export_dir_as_dict_iter (export_dir.py) over an exported tree.  A
\* line "| | |-name\n" is [bars, name, nl]: the number of "| " groups, the
\* length of the name, and whether the line ends in a newline (the last line
\* of a file may not).  The first line of the file, the root, is skipped.

MaxTreeLines == 4
NameLens == {1, 3}

\* len(m.string): the "| " groups, "|-", the name and the newline
line_len(line) == 2 * line.bars + 2 + line.name + line.nl

\* depth = (len(m.string) - len(name)) // 2 - 1
line_depth(line) == (line_len(line) - line.name) \div 2 - 1

\* the exported trees: the first line is a child of the root, and a line is
\* at most one level below the line before it
TreeLines ==
    UNION {{s \in [1..n -> [bars : 1..MaxTreeLines, name : NameLens, nl : {0, 1}]] :
              /\ s[1].bars = 1
              /\ \A k \in 1..n : s[k].nl = 0 => k = n
              /\ \A k \in 2..n : s[k].bars <= s[k-1].bars + 1} : n \in 1..MaxTreeLines}

\* enumerate(...): the number of the line whose index after the root is i
enumerate(i) == i

\* stack[depth] = i, or push(i) on IndexError (stack[k] of the code is at
\* position k + 1 here)
stack_set(stack, depth, i) ==
    IF depth + 1 <= Len(stack) THEN [stack EXCEPT ![depth + 1] = i]
    ELSE Append(stack, i)

InitPrs ==
    /\ \E lines \in TreeLines :
         prs = [lines |-> lines, stack |-> <<0>>, n |-> 0, out |-> <<>>]
    /\ EarlierIdle /\ web = <<>> /\ mon = <<>> /\ share = <<>> /\ trav = <<>> /\ reg = <<>> /\ xp = <<>> /\ rq = <<>> /\ adm = <<>>

PrsOnly == UNCHANGED <<earlierVars, web, mon, share, trav, reg, xp, rq, adm>>

\* one turn of the for loop: the record is yielded and the stack updated
parse_line ==
    /\ prs # <<>> /\ prs.n < Len(prs.lines)
    /\ \E m \in {prs.lines[prs.n + 1]} :
       \E i \in {enumerate(prs.n)}, depth \in {line_depth(m)} :
         prs' = [prs EXCEPT !.n = prs.n + 1,
                            !.out = Append(prs.out, [key |-> i,
                                                     parent_key |-> prs.stack[depth],
                                                     depth |-> depth, name |-> m.name]),
                            !.stack = stack_set(prs.stack, depth, i)]
    /\ PrsOnly

NextPrs == parse_line

SpecPrs == InitPrs /\ [][NextPrs]_vars

\* the lines before line k that are one level above it
AboveBefore(k) == {j \in 1..(k - 1) : prs.out[j].depth = prs.out[k].depth - 1}

\* the parent of record k: the last such line, 0 standing for the root
TrueParent(k) ==
    IF AboveBefore(k) = {} THEN 0
    ELSE CHOOSE j \in AboveBefore(k) : \A h \in AboveBefore(k) : h <= j

\* the nodes of the tree that carry key: records by their key, the root by
\* the initial stack entry 0
NodesWithKey(key) ==
    {j \in 1..Len(prs.out) : prs.out[j].key = key} \cup (IF key = 0 THEN {0} ELSE {})

\* C27: the keys are sequential, and the parent_key of every record is the
\* key of exactly one node, the most recent record one level up (the root
\* for depth 1).
C27_ParentKeyIdentifiesParent ==
    prs # <<>> =>
        \A k \in 1..Len(prs.out) :
            /\ k > 1 => prs.out[k].key = prs.out[k-1].key + 1
            /\ NodesWithKey(prs.out[k].parent_key) = {TrueParent(k)}

\* what holds: the keys are sequential and the parent_key is the key of the
\* most recent record one level up, 0 for the root
C27_ParentKeyIsKeyOfLastRecordAbove ==
    prs # <<>> =>
        \A k \in 1..Len(prs.out) :
            /\ prs.out[k].key = k - 1
            /\ prs.out[k].depth = prs.lines[k].bars
            /\ prs.out[k].parent_key =
                 IF TrueParent(k) = 0 THEN 0 ELSE prs.out[TrueParent(k)].key

-----------------------------------------------------------------------------
\* make_request (tool/request.py): what it returns for each backend name,
\* and where the callable it returns keeps cookies.  A callable store of
\* "cookiejar" is the jar handed to make_request (httpx wraps it in Cookies,
\* requests makes it the session's jar, urlopen gets it as cookies=); "none"
\* is a callable that was given neither the jar nor a session.

Packages == {"", "httpx", "httpx_async", "requests", "urllib3", "urlopen",
             "aiohttp", "blacksheep", "curl"}
Supported == {"httpx", "httpx_async", "requests", "urllib3", "urlopen",
              "aiohttp", "blacksheep"}
CookieNames == {"UID", "CID"}
MaxRequestCalls == 3

make_request(package) ==
    CASE package = "" -> [returns |-> "None", store |-> "none"]
      [] package \in {"httpx", "httpx_async", "requests", "urlopen"} ->
            [returns |-> "callable", store |-> "cookiejar"]
      [] package = "urllib3" -> [returns |-> "NameError", store |-> "none"]
      [] package = "aiohttp" -> [returns |-> "callable", store |-> "none"]
      [] package = "blacksheep" -> [returns |-> "None", store |-> "none"]
      [] OTHER -> [returns |-> "ValueError", store |-> "none"]

InitRq ==
    /\ rq = [package |-> "", made |-> FALSE, returns |-> "None", store |-> "none",
             cookiejar |-> {}, set |-> {}, sent |-> {}, calls |-> 0]
    /\ EarlierIdle /\ web = <<>> /\ mon = <<>> /\ share = <<>> /\ trav = <<>> /\ reg = <<>> /\ xp = <<>> /\ prs = <<>> /\ adm = <<>>

RqOnly == UNCHANGED <<earlierVars, web, mon, share, trav, reg, xp, prs, adm>>

\* request = make_request(package, cookiejar) with an empty jar
rq_make_request ==
    /\ rq # <<>> /\ ~rq.made
    /\ \E package \in Packages :
       \E r \in {make_request(package)} :
         rq' = [rq EXCEPT !.package = package, !.made = TRUE,
                          !.returns = r.returns, !.store = r.store]
    /\ RqOnly

\* one call through the callable: the cookies of its store are sent, and the
\* cookies the response sets are kept in its store
rq_call ==
    /\ rq # <<>> /\ rq.made /\ rq.returns = "callable" /\ rq.calls < MaxRequestCalls
    /\ \E new \in SUBSET CookieNames :
         rq' = [rq EXCEPT !.calls = rq.calls + 1,
                          !.sent = IF rq.store = "cookiejar" THEN rq.cookiejar ELSE {},
                          !.set = rq.set \cup new,
                          !.cookiejar = IF rq.store = "cookiejar" THEN rq.cookiejar \cup new
                                        ELSE rq.cookiejar]
    /\ RqOnly

NextRq ==
    \/ rq_make_request
    \/ rq_call

SpecRq == InitRq /\ [][NextRq]_vars

\* C28: for every supported non-empty backend name make_request returns a
\* callable that keeps its cookies in the supplied jar, so every cookie set
\* by the calls made so far is in the jar for the next call.
C28_EveryBackendUsesSuppliedJar ==
    (rq # <<>> /\ rq.made /\ rq.package \in Supported) =>
        /\ rq.returns = "callable"
        /\ rq.store = "cookiejar"
        /\ rq.set \subseteq rq.cookiejar

\* what holds: the callables of httpx, httpx_async, requests and urlopen
\* keep their cookies in the supplied jar
C28_JarBackendsShareCookies ==
    (rq # <<>> /\ rq.made /\ rq.package \in {"httpx", "httpx_async", "requests", "urlopen"}) =>
        /\ rq.returns = "callable"
        /\ rq.set = rq.cookiejar
        /\ rq.sent \subseteq rq.set

-----------------------------------------------------------------------------
\* The administrative endpoints of the full gateway (web_115_302.py) and of
\* the video gateway (web_115_302_video.py): every handler starts with
\* "if PASSWORD and PASSWORD != password: return json({...}, 401)".

Passwords == {"", "secret", "guess"}
Intervals == {0, 1, 2}
MaxAdminRequests == 3
AdminEndpoints(g) ==
    IF g = "full" THEN {"/run", "/skip", "/running", "/cookies"}
    ELSE {"/run", "/sleep", "/skip", "/qskip", "/running", "/qrunning", "/interval",
          "/cookies", "/cids", "/cids/update", "/cids/discard"}

\* a gateway that lets every password pass
password_ignored(PASSWORD, password) == FALSE

\* if PASSWORD and PASSWORD != password
password_mismatch(PASSWORD, password) == PASSWORD # "" /\ PASSWORD # password

\* json({"state": False, "message": "password does not match"}, 401)
json_password_does_not_match == 401

\* json({...}): the default status
json_ok == 200

InitAdm ==
    /\ \E g \in {"full", "video"}, PASSWORD \in {"", "secret"} :
         adm = [gw |-> g, PASSWORD |-> PASSWORD, interval |-> 0, cookies |-> "old",
                queued |-> 0, endpoint |-> "", password |-> "", status |-> 0, n |-> 0]
    /\ EarlierIdle /\ web = <<>> /\ mon = <<>> /\ share = <<>> /\ trav = <<>> /\ reg = <<>> /\ xp = <<>> /\ prs = <<>> /\ rq = <<>>

AdmOnly == UNCHANGED <<earlierVars, web, mon, share, trav, reg, xp, prs, rq>>

\* the request is noted, and refused when the password does not match
Refused(endpoint, password) ==
    [adm EXCEPT !.endpoint = endpoint, !.password = password, !.n = adm.n + 1,
                !.status = json_password_does_not_match]

Served(endpoint, password) ==
    [adm EXCEPT !.endpoint = endpoint, !.password = password, !.n = adm.n + 1,
                !.status = json_ok]

\* POST /run: the cid is queued
adm_do_run ==
    /\ adm # <<>> /\ adm.n < MaxAdminRequests
    /\ \E password \in Passwords :
         adm' = IF password_mismatch(adm.PASSWORD, password) THEN Refused("/run", password)
                ELSE [Served("/run", password) EXCEPT !.queued = adm.queued + 1]
    /\ AdmOnly

\* POST /interval (video gateway): nan reads the interval, a value sets it
adm_set_interval ==
    /\ adm # <<>> /\ adm.n < MaxAdminRequests /\ adm.gw = "video"
    /\ \E password \in Passwords, value \in Intervals, isnan \in BOOLEAN :
         adm' = IF password_mismatch(adm.PASSWORD, password)
                THEN Refused("/interval", password)
                ELSE IF ~isnan
                THEN [Served("/interval", password) EXCEPT !.interval = value]
                ELSE Served("/interval", password)
    /\ AdmOnly

\* POST /cookies: a body with a string value replaces the cookies
adm_set_cookies ==
    /\ adm # <<>> /\ adm.n < MaxAdminRequests
    /\ \E password \in Passwords, body \in {"none", "new"} :
         adm' = IF password_mismatch(adm.PASSWORD, password)
                THEN Refused("/cookies", password)
                ELSE IF body # "none"
                THEN [Served("/cookies", password) EXCEPT !.cookies = body]
                ELSE Served("/cookies", password)
    /\ AdmOnly

\* the other endpoints: queries and cancellations
adm_other ==
    /\ adm # <<>> /\ adm.n < MaxAdminRequests
    /\ \E endpoint \in AdminEndpoints(adm.gw) \ {"/run", "/interval", "/cookies"},
          password \in Passwords :
         adm' = IF password_mismatch(adm.PASSWORD, password)
                THEN Refused(endpoint, password)
                ELSE Served(endpoint, password)
    /\ AdmOnly

NextAdm ==
    \/ adm_do_run
    \/ adm_set_interval
    \/ adm_set_cookies
    \/ adm_other

SpecAdm == InitAdm /\ [][NextAdm]_vars

\* the last request came without the configured password
AdmDenied ==
    adm # <<>> /\ adm.n > 0 /\ adm.PASSWORD # "" /\ adm.password # adm.PASSWORD

\* C29 as stated: a request to an administrative endpoint with a missing or
\* wrong password is answered with 403.
C29_MismatchAnswered403 ==
    AdmDenied => adm.status = 403

AdmUntouched ==
    /\ adm'.interval = adm.interval
    /\ adm'.cookies = adm.cookies
    /\ adm'.queued = adm.queued

\* C29: when a password is configured, a request to any administrative
\* endpoint with a missing or wrong password is answered with 401, and the
\* endpoint does nothing.
C29_MismatchAnswered401 ==
    [][(adm # <<>> /\ adm' # <<>> /\ adm'.n # adm.n /\ adm.PASSWORD # ""
        /\ adm'.password # adm.PASSWORD)
          => (adm'.status = 401 /\ AdmUntouched)]_vars

\* a request without password was refused by a gateway that has served a
\* /run before
C29_Witness ==
    /\ AdmDenied /\ adm.password = "" /\ adm.status = 401
    /\ adm.queued > 0

-----------------------------------------------------------------------------
\* Claim C30, on SpecDiff: the remote entries the walk of diff_dir streamed,
\* against the buckets select_mtime_groups built from the mirror as it was.

\* the state in which diff_dir enters its for loop
diff_init(con, id) ==
    LET groups == select_mtime_groups(con, id)
        remains == SumLen(groups)
    IN  [remains |-> remains,
         his_mtime |-> IF remains # 0 THEN Head(groups).mtime ELSE 0,
         his_ids |-> IF remains # 0 THEN Head(groups).ids ELSE {},
         his_it |-> IF remains # 0 THEN Tail(groups) ELSE <<>>,
         upsert |-> {}, delete |-> {}, dirs |-> {}, seen |-> {},
         stop |-> FALSE, returned |-> FALSE]

\* the ids the walk took from data_it before it ended or returned
Streamed == diff_walk(diff_init(before, cur), remote, listing, 1).seen

\* the entry is in an expected bucket: the same id is recorded as a live
\* child of the directory with the same mtime
InExpectedBucket(i) ==
    /\ before[i].present /\ before[i].is_alive /\ before[i].parent_id = cur
    /\ before[i].mtime = remote[i].mtime

\* C30: every remote entry streamed during the walk that is not matched to
\* an expected bucket is on the upsert list that diff_dir returns.
C30_UnmatchedStreamedEntryIsUpserted ==
    pc \in {"diffed", "done"} =>
        \A i \in Streamed : ~InExpectedBucket(i) => i \in result.upsert

\* what holds: an unmatched streamed entry is missing from the upsert list
\* only when it is older than every expected bucket that was still open,
\* the entry on which the history ran out
C30_UnmatchedEntryUpsertedUnlessHistoryRanOut ==
    pc \in {"diffed", "done"} =>
        \A i \in Streamed :
            (~InExpectedBucket(i) /\ i \notin result.upsert) =>
                /\ result.delete # {} \/ LiveRows(before, cur) # {}
                /\ \A p \in LiveRows(before, cur) :
                      p[2] > remote[i].mtime \/ p[1] \in Streamed

\* the upsert list holds streamed entries only, none of them matched
C30_UpsertedEntriesAreUnmatched ==
    pc \in {"diffed", "done"} =>
        \A i \in result.upsert : i \in Streamed /\ ~InExpectedBucket(i)

-----------------------------------------------------------------------------
\* Claim C31, on SpecDiff: where the walk of diff_dir ends.

\* the state in which the walk over the listing ended
Walked == diff_walk(diff_init(before, cur), remote, listing, 1)

\* the expected ids of the buckets the walk had not left when it ended
\* that were not seen in the listing
RemainingUnseen == (Walked.his_ids \cup RestIds(Walked.his_it)) \ Walked.seen

\* the expected ids of those buckets that were not matched: the id matched
\* last is still in its bucket when diff_dir returns from inside the loop
StillUnmatched ==
    {i \in Walked.his_ids \cup RestIds(Walked.his_it) :
        ~(i \in Walked.seen /\ InExpectedBucket(i))}

\* the walk ended before it had taken every entry of the listing
EndedEarly == Cardinality(Walked.seen) < Len(listing)

\* the id is gone from the remote directory or has another mtime there
Stale(i) == ~(remote[i].exists /\ remote[i].mtime = before[i].mtime)

\* C31 as stated: the walk ends early only when unmatched expected ids plus
\* entries seen equals the total count, and then every remaining expected id
\* that was not re-seen is stale.
C31_EarlyEndLeavesOnlyStaleIds ==
    (pc \in {"diffed", "done"} /\ EndedEarly) =>
        /\ Cardinality(StillUnmatched) + Cardinality(Walked.seen) = Len(listing)
        /\ \A i \in RemainingUnseen : Stale(i)

\* C31: the walk ends early only when unmatched expected ids plus entries
\* seen equals the total count, and then none of the remaining expected ids
\* is put on the delete list: they are taken to be unchanged.
C31_EarlyEndKeepsRemainingIds ==
    (pc \in {"diffed", "done"} /\ EndedEarly) =>
        /\ Walked.returned
        /\ Cardinality(StillUnmatched) + Cardinality(Walked.seen) = Len(listing)
        /\ Walked.remains = Cardinality(StillUnmatched)
        /\ RemainingUnseen \cap result.delete = {}

\* the walk returned early and left an expected id unseen that is unchanged
\* on the remote side
C31_Witness ==
    /\ pc = "done" /\ EndedEarly
    /\ \E i \in RemainingUnseen : ~Stale(i)
    /\ result.delete # {}

-----------------------------------------------------------------------------
\* One paginated pull of directory "top" by iterdir, consumed by the for
\* loop of diff_dir.  The remote drive changes while it is being listed, so
\* a page is any sequence of children and carries any count.

MaxPageLen == 2
MaxCount == 3
MaxPages == 2

Pages == UNION {[1..n -> TopChildren] : n \in 0..MaxPageLen}
NoResult == [upsert |-> {"none"}, delete |-> {"none"}, dirs |-> {}]

\* a pull that takes every id for new
never_in_seen(fid, seen_ids) == FALSE

\* if fid in seen: raise BusyOSError
in_seen(fid, seen_ids) == fid \in seen_ids

\* the ids of a page
PageIds(s) == {s[k] : k \in DOMAIN s}

\* a page that holds an id twice
HasDuplicate(s) == \E a, b \in DOMAIN s : a # b /\ s[a] = s[b]

\* the mirrors and the entry attributes of the pull
PullMirrors ==
    {[i \in Ids |-> IF i \in live THEN Row(ParentOf[i], m[i], i \in DirIds, TRUE) ELSE NoRow] :
        live \in SUBSET TopChildren, m \in [Ids -> {1}]}

PullAttrs == {[i \in Ids |-> Entry(m[i])] : m \in [Ids -> Mtimes]}

InitPull ==
    /\ \E con \in {c \in PullMirrors : \A i \in Ids : c[i].present \/ c[i] = NoRow},
          rem \in {r \in PullAttrs : \A i \in Ids \ {"f1", "f2"} : r[i].mtime = 1} :
         pull = [con |-> con, rem |-> rem, at |-> "call", st |-> diff_init(con, "top"),
                 count |-> 0, offset |-> 0, page |-> <<>>, len |-> 0, n |-> 0,
                 fetched |-> {}, reemitted |-> FALSE, retaken |-> FALSE, pages |-> 0, changed |-> FALSE,
                 result |-> NoResult]
    /\ SettledIdle /\ feed = <<>> /\ dirc = <<>>

PullOnly == UNCHANGED <<settledVars, feed, dirc>>

\* iterdir(client, id): the first page gives the count
pull_first_page ==
    /\ pull # <<>> /\ pull.at = "call"
    /\ \E count \in 0..MaxCount, items \in Pages :
         /\ Len(items) <= count
         /\ pull' = [pull EXCEPT !.at = "iterate", !.count = count, !.page = items,
                                 !.len = Len(items), !.fetched = PageIds(items),
                                 !.reemitted = HasDuplicate(items), !.pages = 1]
    /\ PullOnly

\* for attr in map(normalize_attr, resp["data"]): the next entry of the page
\* is a duplicate, or is yielded to one turn of the for loop of diff_dir
pull_entry ==
    /\ pull # <<>> /\ pull.at = "iterate" /\ pull.page # <<>>
    /\ \E fid \in {Head(pull.page)} :
         IF in_seen(fid, pull.st.seen)
         THEN pull' = [pull EXCEPT !.at = "Busy", !.retaken = fid \in pull.st.seen,
                                   !.page = Tail(pull.page)]
         ELSE \E st \in {diff_step(pull.st, pull.rem, fid, pull.n + 1, pull.count)} :
                pull' = [pull EXCEPT !.st = st, !.n = pull.n + 1,
                                     !.retaken = fid \in pull.st.seen,
                                     !.page = Tail(pull.page),
                                     !.at = IF st.returned THEN "returned" ELSE "iterate",
                                     !.result = IF st.returned
                                                THEN [upsert |-> st.upsert, delete |-> st.delete,
                                                      dirs |-> st.dirs]
                                                ELSE pull.result]
    /\ PullOnly

\* the page is used up and offset >= count: the listing ends, and diff_dir
\* returns after the statements that follow its loop
pull_ends ==
    /\ pull # <<>> /\ pull.at = "iterate" /\ pull.page = <<>>
    /\ pull.offset + pull.len >= pull.count
    /\ \E st \in {diff_tail(pull.st)} :
         pull' = [pull EXCEPT !.at = "returned", !.offset = pull.offset + pull.len,
                              !.st = st,
                              !.result = [upsert |-> st.upsert, delete |-> st.delete,
                                          dirs |-> st.dirs]]
    /\ PullOnly

\* the page is used up and offset < count: the next page is fetched; another
\* directory at the end of its path is FileNotFoundError, another count Busy
pull_next_page ==
    /\ pull # <<>> /\ pull.at = "iterate" /\ pull.page = <<>>
    /\ pull.offset + pull.len < pull.count /\ pull.pages < MaxPages
    /\ \E same_cid \in BOOLEAN, count \in 0..MaxCount, items \in Pages :
         pull' = IF ~same_cid
                 THEN [pull EXCEPT !.at = "FileNotFoundError",
                                   !.offset = pull.offset + pull.len, !.len = 0]
                 ELSE [pull EXCEPT !.offset = pull.offset + pull.len,
                                   !.page = items, !.len = Len(items),
                                   !.fetched = pull.fetched \cup PageIds(items),
                                   !.reemitted = \/ pull.reemitted
                                                 \/ HasDuplicate(items)
                                                 \/ PageIds(items) \cap pull.fetched # {},
                                   !.pages = pull.pages + 1,
                                   !.changed = count # pull.count,
                                   !.at = IF count # pull.count THEN "Busy" ELSE "iterate"]
    /\ PullOnly

NextPull ==
    \/ pull_first_page
    \/ pull_entry
    \/ pull_ends
    \/ pull_next_page

SpecPull == InitPull /\ [][NextPull]_vars

PullOver == pull # <<>> /\ pull.at \in {"returned", "Busy", "FileNotFoundError"}

\* C32 as stated: when the pages the remote sent hold an id twice, or a page
\* came with another count, the pull raised Busy and there is no result.
C32_ReEmissionOrCountChangeIsBusy ==
    (PullOver /\ (pull.reemitted \/ pull.changed)) =>
        (pull.at = "Busy" /\ pull.result = NoResult)

\* C32: when the walk takes from the pull an id it has taken before, or a
\* page is fetched that carries another count than the first, the pull
\* raises Busy and diff_dir returns no result; and Busy is raised for no
\* other reason.
C32_DuplicateTakenOrCountChangeIsBusy ==
    PullOver =>
        /\ (pull.retaken \/ pull.changed) <=> pull.at = "Busy"
        /\ pull.at = "Busy" => pull.result = NoResult
        /\ pull.at = "returned" => pull.result # NoResult

\* Busy was raised on the second page for an id of the first page, after
\* the walk had put an entry on its upsert list
C32_Witness ==
    /\ pull # <<>> /\ pull.at = "Busy" /\ pull.pages = 2
    /\ pull.retaken /\ ~pull.changed
    /\ pull.st.upsert # {}


-----------------------------------------------------------------------------
\* C33: a diff_dir attempt that is left by an exception of the listing
\* (BusyOSError) leaves the data table as it was: no row is inserted,
\* updated or revived by the failed attempt.
C33_BusyAttemptLeavesDataUnchanged ==
    [][reg_diff_dir_raises => reg'.con = reg.con]_vars

\* what the failed attempt does leave alone: the rows of files and the
\* is_alive flag of every live row (nothing is marked dead, no file is written)
C33_BusyAttemptWritesOnlyDirectories ==
    [][reg_diff_dir_raises =>
         \A i \in Ids : /\ i \notin DirIds => reg'.con[i] = reg.con[i]
                        /\ (reg.con[i].present /\ reg.con[i].is_alive) =>
                              (reg'.con[i].present /\ reg'.con[i].is_alive)]_vars


-----------------------------------------------------------------------------
-----------------------------------------------------------------------------
\* C35: in recursive mode with a positive threshold every directory that is
\* marked processed was pulled first (one level or its tree), a directory
\* whose estimated count is 0 included.
C35_ProcessedDirectoryWasDiffed ==
    sp # <<>> => \A id \in sp.seen : sp.pulled[id] # "no"

\* the directories marked processed without a pull are those whose
\* statistics call reported no file
C35_OnlyEmptyCountSkipsTheDiff ==
    sp # <<>> =>
      \A id \in sp.seen :
        sp.pulled[id] = "no" <=>
           (~sp.cache_futures[id].inf /\ sp.cache_futures[id].n <= 0)


-----------------------------------------------------------------------------
\* the id-to-pickcode cache with nothing in it
NothingCached == [i \in FileIds |-> ""]

\* C36: in the Mini gateway a request that names a file by id is answered
\* as it would be with an empty id-to-pickcode cache: a cached pickcode
\* never changes the answer.
C36_CacheHitAnswersAsCacheMiss ==
    [][(gateway_handle /\ gw = "mini" /\ req.pickcode = "" /\ req.id # "") =>
          resp' = mini_index(req, NothingCached)]_vars

\* what the cache changes: a cached id is answered as if the request did not
\* carry the id at all (by its sha1, or 404 without one)
C36_CacheHitDropsTheId ==
    [][(gateway_handle /\ gw = "mini" /\ req.pickcode = "" /\ req.id # "") =>
          IF ID_TO_PICKCODE[req.id] = ""
          THEN resp' = mini_index(req, NothingCached)
          ELSE resp' = mini_index([req EXCEPT !.id = ""], NothingCached)]_vars


-----------------------------------------------------------------------------
\* The poll loop of main (life_list_monitor.py).  The clock counts ticks,
\* TicksPerSecond of them to a second; time() is the clock, int(time()) its
\* whole seconds.  The drive logs events with the second they happen in; an
\* event is a plain entry of the feed ("entry"), one of the items a grouped
\* entry carries ("item"), or an item of a group that only the behavior
\* detail listing returns ("detail").
TicksPerSecond == 2
MaxFeedSeconds == 4
FirstSecond == 2

FeedIds == {"e1", "e2"}
FeedKinds == {"entry", "item", "detail"}
NotLogged == [logged |-> FALSE, update_time |-> 0, kind |-> "entry"]

\* int(time())
int_time(ticks) == ticks \div TicksPerSecond

\* the events the feed returns for start_time, end_time: those of the window,
\* its bounds included (closed) or not
life_list(log, start_time, end_time, closed) ==
    {i \in FeedIds :
        /\ log[i].logged
        /\ IF closed
           THEN start_time <= log[i].update_time /\ log[i].update_time <= end_time
           ELSE start_time < log[i].update_time /\ log[i].update_time < end_time}

\* the events one iteration hands to collect: a plain entry when
\* start_time < update_time < end_time, every item of a grouped entry, and
\* from life_behavior_detail the items that are not in seen_items and lie
\* inside the window
collected(log, returned, start_time, end_time) ==
    LET inside(i) == start_time < log[i].update_time /\ log[i].update_time < end_time
        group == \E i \in returned : log[i].kind # "entry"
        seen_items == {i \in returned : log[i].kind = "item"}
    IN  {i \in returned : log[i].kind = "entry" /\ inside(i)}
        \cup seen_items
        \cup {i \in FeedIds : /\ group /\ log[i].logged /\ log[i].kind # "entry"
                              /\ i \notin seen_items /\ inside(i)}

\* start_time = data["list"][0]["update_time"]: the newest entry returned
newest(log, returned) ==
    CHOOSE t \in {log[i].update_time : i \in returned} :
        \A i \in returned : log[i].update_time <= t

InitFeed ==
    /\ feed = [time |-> FirstSecond * TicksPerSecond,
               end_time |-> FirstSecond, start_time |-> FirstSecond - 2,
               at |-> "life_list", log |-> [i \in FeedIds |-> NotLogged],
               delivered |-> [i \in FeedIds |-> 0],
               last_call |-> -1, prev_call |-> -1, last_end |-> -1, last_failed |-> FALSE]
    /\ SettledIdle /\ pull = <<>> /\ dirc = <<>>

FeedOnly == UNCHANGED <<settledVars, pull, dirc>>

\* time passes
clock_ticks ==
    /\ feed # <<>> /\ feed.time < MaxFeedSeconds * TicksPerSecond
    /\ feed' = [feed EXCEPT !.time = feed.time + 1]
    /\ FeedOnly

\* something happens on the drive and is logged with the current second
drive_logs_event ==
    /\ feed # <<>>
    /\ \E i \in FeedIds, kind \in FeedKinds :
         /\ ~feed.log[i].logged
         /\ i = "e2" => feed.log["e1"].logged
         /\ feed' = [feed EXCEPT !.log[i] = [logged |-> TRUE,
                                             update_time |-> int_time(feed.time),
                                             kind |-> kind]]
    /\ FeedOnly

\* client.life_list raises: "except Exception as e: log_error(e); continue"
life_list_raises ==
    /\ feed # <<>> /\ feed.at = "life_list"
    /\ feed' = [feed EXCEPT !.prev_call = feed.last_call, !.last_call = feed.time,
                            !.last_end = feed.end_time, !.last_failed = TRUE]
    /\ FeedOnly

\* client.life_list answers: the entries are collected, the detail listing
\* is read, and start_time moves to the newest entry returned
life_list_answers ==
    /\ feed # <<>> /\ feed.at = "life_list"
    /\ \E closed \in BOOLEAN :
       \E returned \in {life_list(feed.log, feed.start_time, feed.end_time, closed)} :
       \E out \in {collected(feed.log, returned, feed.start_time, feed.end_time)} :
         feed' = [feed EXCEPT
                    !.delivered = [i \in FeedIds |->
                                     IF i \in out /\ feed.delivered[i] < 2
                                     THEN feed.delivered[i] + 1 ELSE feed.delivered[i]],
                    !.start_time = IF returned # {} THEN newest(feed.log, returned)
                                   ELSE feed.start_time,
                    !.prev_call = feed.last_call, !.last_call = feed.time,
                    !.last_end = feed.end_time, !.last_failed = FALSE,
                    !.at = "sleep"]
    /\ FeedOnly

\* if (diff := time() - end_time) < 1: sleep(1-diff); end_time = int(time())
sleep_floor ==
    /\ feed # <<>> /\ feed.at = "sleep"
    /\ \E woke \in {IF feed.time - feed.end_time * TicksPerSecond < TicksPerSecond
                    THEN (feed.end_time + 1) * TicksPerSecond ELSE feed.time} :
         /\ woke <= MaxFeedSeconds * TicksPerSecond
         /\ feed' = [feed EXCEPT !.time = woke, !.end_time = int_time(woke),
                                 !.at = "life_list"]
    /\ FeedOnly

NextFeed ==
    \/ clock_ticks
    \/ drive_logs_event
    \/ life_list_raises
    \/ life_list_answers
    \/ sleep_floor

SpecFeed == InitFeed /\ [][NextFeed]_vars

\* C37: two consecutive calls of the activity feed never fall into the same
\* second, also when the earlier of the two failed.
C37_NoTwoFeedCallsInOneSecond ==
    (feed # <<>> /\ feed.prev_call # -1) =>
        int_time(feed.last_call) > int_time(feed.prev_call)

\* what the sleep at the end of an iteration gives: after an answered call
\* the next call is made no earlier than one second after the end_time the
\* answered iteration used
C37_AnsweredCallIsFollowedAfterEndTimePlusOne ==
    [][((life_list_raises \/ life_list_answers)
          /\ feed.last_call # -1 /\ ~feed.last_failed) =>
            feed.time >= (feed.last_end + 1) * TicksPerSecond]_vars

\* C40: over all iterations of the poll loop every event of the feed is
\* handed to collect at most once.
C40_EachEventCollectedAtMostOnce ==
    feed # <<>> => \A i \in FeedIds : feed.delivered[i] <= 1

\* plain entries and the items read from the detail listing are collected
\* at most once: both are taken only strictly inside the window
C40_FilteredEventsCollectedAtMostOnce ==
    feed # <<>> =>
        \A i \in FeedIds : feed.log[i].kind # "item" => feed.delivered[i] <= 1


-----------------------------------------------------------------------------
\* the batch task has just handled the cancellation of a round sent to sleep
BatchSleepHandled ==
    ld' # ld /\ ld.running = "sleep" /\ ld'.last = "batch_load_cancelled"

-----------------------------------------------------------------------------
\* The listing cache of the FUSE filesystem (fuser.py), for one directory of
\* the mirror.  kids are the names the database holds for the directory;
\* cache is self.cache[path]: absent, or the dict children of the last
\* readdir.
MaxDirCalls == 3

DirNames == {"a", "b", "c"}

NotCached == [cached |-> FALSE, children |-> {}]

\* readdir(path): children = {}; self.cache[path] = children; then the rows
\* of the database are put into children one by one.  got is what was put
\* in before the call returned or raised.
readdir(st, got) ==
    [st EXCEPT !.cache = [cached |-> TRUE, children |-> got]]

\* what a readdir that raises has put into children: the lookup of the id
\* failed (nothing), or the rows stopped part-way
partial_listings(kids) == (SUBSET kids) \ {kids}

\* getattr(path) on a cached listing: dird[name], or FileNotFoundError
lookup(st, name) == IF name \in st.cache.children THEN "attr" ELSE "ENOENT"

InitDirc ==
    /\ \E kids \in (SUBSET DirNames) \ {{}} :
         dirc = [kids |-> kids, cache |-> NotCached, calls |-> 0,
                 op |-> "none", name |-> "", out |-> "", failed |-> FALSE]
    /\ SettledIdle /\ pull = <<>> /\ feed = <<>>

DircOnly == UNCHANGED <<settledVars, pull, feed>>

\* readdir returns the listing
readdir_returns ==
    /\ dirc # <<>> /\ dirc.calls < MaxDirCalls
    /\ dirc' = [readdir(dirc, dirc.kids) EXCEPT !.calls = dirc.calls + 1,
                                                 !.op = "readdir", !.name = "", !.out = "ok"]
    /\ DircOnly

\* readdir raises: the database is locked or closed, or a predicate raises
readdir_raises ==
    /\ dirc # <<>> /\ dirc.calls < MaxDirCalls
    /\ \E got \in partial_listings(dirc.kids) :
         dirc' = [readdir(dirc, got) EXCEPT !.calls = dirc.calls + 1, !.failed = TRUE,
                                            !.op = "readdir", !.name = "", !.out = "error"]
    /\ DircOnly

\* getattr(path) of a name in the directory: the cached listing is used; with
\* none cached readdir is called first, and its failure is answered EIO
getattr ==
    /\ dirc # <<>> /\ dirc.calls < MaxDirCalls
    /\ \E name \in DirNames :
         IF dirc.cache.cached
         THEN dirc' = [dirc EXCEPT !.calls = dirc.calls + 1, !.op = "getattr",
                                   !.name = name, !.out = lookup(dirc, name)]
         ELSE \/ \E st \in {readdir(dirc, dirc.kids)} :
                   dirc' = [st EXCEPT !.calls = dirc.calls + 1, !.op = "getattr",
                                      !.name = name, !.out = lookup(st, name)]
              \/ \E got \in partial_listings(dirc.kids) :
                   dirc' = [readdir(dirc, got) EXCEPT !.calls = dirc.calls + 1,
                                                      !.failed = TRUE, !.op = "getattr",
                                                      !.name = name, !.out = "EIO"]
    /\ DircOnly

\* LRUDict(1024): listings of other directories push this one out
cache_evicts ==
    /\ dirc # <<>> /\ dirc.cache.cached
    /\ dirc' = [dirc EXCEPT !.cache = NotCached, !.op = "evict", !.name = "", !.out = ""]
    /\ DircOnly

NextDirc ==
    \/ readdir_returns
    \/ readdir_raises
    \/ getattr
    \/ cache_evicts

SpecDirc == InitDirc /\ [][NextDirc]_vars

\* C39: the cache holds the listing of a directory only when it was built
\* completely, and getattr never answers "not found" for a name the
\* directory holds.
C39_CachedListingIsComplete ==
    dirc # <<>> =>
        /\ dirc.cache.cached => dirc.cache.children = dirc.kids
        /\ (dirc.op = "getattr" /\ dirc.name \in dirc.kids) => dirc.out # "ENOENT"

\* as long as no readdir has raised the cached listing is complete and
\* getattr finds every name of the directory; and a cached listing never
\* holds a name the directory does not have
C39_ListingCompleteWhileNoReaddirRaised ==
    dirc # <<>> =>
        /\ dirc.cache.children \subseteq dirc.kids
        /\ ~dirc.failed =>
             /\ dirc.cache.cached => dirc.cache.children = dirc.kids
             /\ (dirc.op = "getattr" /\ dirc.name \in dirc.kids) => dirc.out = "attr"

=============================================================================
